---- MODULE Spec2Model ----
(***************************************************************************)
(* Model of n8n-updater: the remote command channel (SSHExecutor.execute), *)
(* the version resolver (parse_version / compare_versions), the update and *)
(* rollback workflows (SSHExecutor.update_n8n, rollback_n8n), the health   *)
(* aggregator (perform_full_health_check, get_server_status, the URL probe *)
(* check_n8n_health), the server_health and backups tables of storage.py   *)
(* with their handlers, the registry lookup (get_latest_version) and the   *)
(* callers of the workflows: cb_refresh_all, execute_updates, the          *)
(* scheduled update job and cb_rollback_confirm.                           *)
(*                                                                         *)
(* Text is modelled as a sequence of one-character strings, so that        *)
(* parsing (split, lstrip, the SEMVER regular expression, int()) is        *)
(* computed on the characters, as the code computes it.                    *)
(***************************************************************************)
EXTENDS Integers, Sequences, FiniteSets, TLC

VARIABLES
    current,      \* compare_versions: the `current` operand (text)
    latest,       \* compare_versions: the `latest` operand (text)
    cmp,          \* the value compare_versions returned ([done, value])
    category,     \* check_updates: the list the target's status was put in
    chan,         \* an SSHExecutor handle and the last call of execute on it
    upd,          \* the update_n8n run: locals, executor and result
    ref,          \* the same run of update_n8n with progress_callback=None
    rb,           \* the rollback_n8n run and the handler that started it
    hc,           \* the perform_full_health_check run
    st,           \* the get_server_status run
    health,       \* the server_health table: server_id -> row
    backups,      \* the backups table, the last row id and the clock
    bot           \* the handlers and jobs of the bot process under way

versionVars == <<current, latest, cmp, category>>
updateVars == <<upd, ref>>
opsVars == <<rb, hc, st, health, backups, bot>>
vars == <<current, latest, cmp, category, chan, upd, ref, rb, hc, st, health, backups, bot>>

(***************************************************************************)
(* Bounds of the model.                                                    *)
(***************************************************************************)
MaxMajor == 1
MaxPatch == 1
MaxCalls == 2

(***************************************************************************)
(* Text helpers: Python's str operations used by the code.                 *)
(***************************************************************************)
NoneV == [tag |-> "None"]

Some(v) == [tag |-> "Some", val |-> v]

IsNone(x) == x.tag = "None"

DigitChars == {"0", "1", "2", "3", "4", "5", "6", "7", "8", "9"}

DigitVal(c) ==
    CASE c = "0" -> 0 [] c = "1" -> 1 [] c = "2" -> 2 [] c = "3" -> 3
      [] c = "4" -> 4 [] c = "5" -> 5 [] c = "6" -> 6 [] c = "7" -> 7
      [] c = "8" -> 8 [] c = "9" -> 9

DigitChar(d) ==
    CASE d = 0 -> "0" [] d = 1 -> "1" [] d = 2 -> "2" [] d = 3 -> "3"
      [] d = 4 -> "4" [] d = 5 -> "5" [] d = 6 -> "6" [] d = 7 -> "7"
      [] d = 8 -> "8" [] d = 9 -> "9"

RECURSIVE IntToStr(_)
IntToStr(n) ==
    IF n < 10 THEN <<DigitChar(n)>>
    ELSE Append(IntToStr(n \div 10), DigitChar(n % 10))

\* int(s) for a non-empty string of decimal digits
RECURSIVE StrToInt(_)
StrToInt(s) ==
    IF s = <<>> THEN 0
    ELSE 10 * StrToInt(SubSeq(s, 1, Len(s) - 1)) + DigitVal(s[Len(s)])

Contains(s, c) == \E i \in 1..Len(s) : s[i] = c

\* s.split(c)[-1]: the text after the last occurrence of c
SplitLast(s, c) ==
    LET idx == {i \in 1..Len(s) : s[i] = c}
        last == CHOOSE i \in idx : \A j \in idx : j <= i
    IN  IF idx = {} THEN s ELSE SubSeq(s, last + 1, Len(s))

\* s.lstrip(c)
RECURSIVE LStrip(_, _)
LStrip(s, c) ==
    IF s # <<>> /\ Head(s) = c THEN LStrip(Tail(s), c) ELSE s

\* s.split(c): the fields between the occurrences of c
RECURSIVE Split(_, _)
Split(s, c) ==
    LET idx == {i \in 1..Len(s) : s[i] = c}
        first == CHOOSE i \in idx : \A j \in idx : i <= j
    IN  IF idx = {} THEN <<s>>
        ELSE <<SubSeq(s, 1, first - 1)>> \o Split(SubSeq(s, first + 1, Len(s)), c)

IsNumber(s) == s # <<>> /\ \A i \in 1..Len(s) : s[i] \in DigitChars

(***************************************************************************)
(* version_checker.py                                                      *)
(***************************************************************************)
\* SEMVER_PATTERN.match(tag): ^(\d+)\.(\d+)\.(\d+)$ ; `$` also matches just
\* before a newline that ends the text.  The value is the three groups.
SemverGroups(tag) ==
    LET body == IF tag # <<>> /\ tag[Len(tag)] = "\n"
                THEN SubSeq(tag, 1, Len(tag) - 1) ELSE tag
        fields == Split(body, ".")
    IN  IF Len(fields) = 3 /\ \A i \in 1..3 : IsNumber(fields[i])
        THEN Some(fields) ELSE NoneV

\* VersionInfo.from_tag
from_tag(tag) ==
    LET m == SemverGroups(tag)
    IN  IF IsNone(m) THEN NoneV
        ELSE [tag |-> "VersionInfo", version |-> tag,
              major |-> StrToInt(m.val[1]),
              minor |-> StrToInt(m.val[2]),
              patch |-> StrToInt(m.val[3])]

\* Python's < on tuples of integers: the first differing position decides
RECURSIVE TupleLess(_, _)
TupleLess(x, y) ==
    IF x = <<>> THEN y # <<>>
    ELSE IF y = <<>> THEN FALSE
    ELSE IF Head(x) # Head(y) THEN Head(x) < Head(y)
    ELSE TupleLess(Tail(x), Tail(y))

VersionTuple(v) == <<v.major, v.minor, v.patch>>

\* ord(c) for the characters a version text holds
CharOrd(c) ==
    IF c \in DigitChars THEN 48 + DigitVal(c)
    ELSE IF c = "." THEN 46
    ELSE IF c = "\n" THEN 10
    ELSE 118

\* Python's < on str: the code points compared position by position
TextLess(s, t) == TupleLess([i \in 1..Len(s) |-> CharOrd(s[i])],
                           [i \in 1..Len(t) |-> CharOrd(t[i])])

\* VersionInfo.__lt__ comparing the version texts instead of the numbers
VersionLtAsText(a, b) == TextLess(a.version, b.version)

\* VersionInfo.__lt__ written with <= instead of <
VersionLtOrEqual(a, b) ==
    TupleLess(VersionTuple(a), VersionTuple(b)) \/ VersionTuple(a) = VersionTuple(b)

\* VersionInfo.__lt__
VersionLt(a, b) == TupleLess(VersionTuple(a), VersionTuple(b))

\* VersionInfo.__eq__
VersionEq(a, b) == VersionTuple(a) = VersionTuple(b)

parse_version(version_str) ==
    LET s1 == IF Contains(version_str, ":") THEN SplitLast(version_str, ":")
              ELSE version_str
        s2 == LStrip(s1, "v")
    IN  from_tag(s2)

\* compare_versions taking an unparsable operand for an outdated one
compare_versions_unparsed_is_older(cur, lat) ==
    LET current_info == parse_version(cur)
        latest_info == parse_version(lat)
    IN  IF IsNone(current_info) \/ IsNone(latest_info) THEN -1
        ELSE IF VersionLt(current_info, latest_info) THEN -1
        ELSE IF VersionEq(current_info, latest_info) THEN 0
        ELSE 1

compare_versions(cur, lat) ==
    LET current_info == parse_version(cur)
        latest_info == parse_version(lat)
    IN  IF IsNone(current_info) \/ IsNone(latest_info) THEN 0
        ELSE IF VersionLt(current_info, latest_info) THEN -1
        ELSE IF VersionEq(current_info, latest_info) THEN 0
        ELSE 1

(***************************************************************************)
(* The version texts the comparison is run on.                             *)
(***************************************************************************)
MinorVals == {9, 10, 69, 70}

Render(ma, mi, pa) ==
    IntToStr(ma) \o <<".">> \o IntToStr(mi) \o <<".">> \o IntToStr(pa)

PlainVersions ==
    {Render(ma, mi, pa) : ma \in 0..MaxMajor, mi \in MinorVals, pa \in 0..MaxPatch}

\* the forms parse_version accepts besides MAJOR.MINOR.PATCH itself
DecoratedVersions ==
    { <<"v">> \o Render(1, 9, 0),
      <<"v", "v">> \o Render(1, 10, 0),
      <<"n", ":">> \o Render(1, 69, 0),
      <<"n", ":", "v">> \o Render(1, 70, 0),
      <<"h", ":", "5", "/", "n", ":">> \o Render(1, 9, 1),
      Render(1, 10, 0) \o <<"\n">>,
      <<"0", "1", ".", "0", "9", ".", "0">>,
      <<"1", ".", "1", "0", ".", "0", "0">> }

\* texts that are no MAJOR.MINOR.PATCH
UnparsableVersions ==
    { <<>>,
      <<"v">>,
      <<"l", "a", "t", "e", "s", "t">>,
      <<"n", ":", "l", "a", "t", "e", "s", "t">>,
      <<"1", ".", "9">>,
      <<"1", ".", "9", ".", "0", ".", "0">>,
      <<"1", ".", "9", ".", "x">>,
      <<"1", ".", "9", ".", "0", "-", "r", "c">>,
      <<"1", ".", ".", "0">>,
      <<".", "9", ".", "0">>,
      <<"1", ".", "9", ".", "0", ":">>,
      <<"1", ".", "9", ".", "0", "v">>,
      <<"x", "1", ".", "9", ".", "0">>,
      <<" ", "1", ".", "9", ".", "0">>,
      <<"1", ".", "9", ".", "0", "\n", "\n">> }

VersionTexts == PlainVersions \cup DecoratedVersions \cup UnparsableVersions

Parsable(s) == ~IsNone(parse_version(s))

(***************************************************************************)
(* bot/handlers.py, check_updates: the list a target's status is put in.   *)
(* status.version is the text get_current_version returned, or None.       *)
(***************************************************************************)
\* check_updates offering the update also when the versions are equal
classify_status_offer_on_equal(status, latest_str) ==
    IF ~status.connected THEN "errors"
    ELSE IF ~IsNone(status.version) /\ status.version.val # <<>>
         THEN IF compare_versions(status.version.val, latest_str) <= 0
              THEN "updates_available" ELSE "up_to_date"
    ELSE "errors"

classify_status(status, latest_str) ==
    IF ~status.connected THEN "errors"
    ELSE IF ~IsNone(status.version) /\ status.version.val # <<>>
         THEN IF compare_versions(status.version.val, latest_str) < 0
              THEN "updates_available" ELSE "up_to_date"
    ELSE "errors"

(***************************************************************************)
(* ssh_executor.py: the remote command channel.                            *)
(*                                                                         *)
(* One call of execute meets one outcome of the environment:               *)
(*   alive     whether the transport of a held client is still active      *)
(*   connect   what client.connect does when a connection is opened        *)
(*   run       whether exec_command and the reads complete                 *)
(*   exit_code, stdout, stderr   what the command gives when it ran        *)
(***************************************************************************)
AuthConfigs == {"key", "key_missing", "key_unloadable", "password", "invalid"}

ConnectErrors == {"refused", "auth_failed", "connect_timeout"}

RunErrors == {"channel_closed", "read_timeout"}

\* recv_exit_status: the command's status, or -1 when the server sent none
ExitCodes == {0, 1, -1}

\* str(e) of the exception raised
ErrorText(kind) ==
    CASE kind = "key_missing" -> "SSH key not found"
      [] kind = "key_unloadable" -> "Could not load SSH key"
      [] kind = "invalid" -> "Invalid auth configuration"
      [] kind = "refused" -> "Unable to connect"
      [] kind = "auth_failed" -> "Authentication failed."
      [] kind = "connect_timeout" -> "timed out"
      [] kind = "channel_closed" -> "SSH session not active"
      [] kind = "read_timeout" -> ""

CommandResult(success, stdout, stderr, exit_code) ==
    [success |-> success, stdout |-> stdout, stderr |-> stderr,
     exit_code |-> exit_code]

EnvOutcomesWith(stdouts) ==
    {[alive |-> FALSE, connect |-> c, run |-> "ran", exit_code |-> 0,
      stdout |-> <<>>, stderr |-> ""] : c \in ConnectErrors}
    \cup
    {[alive |-> a, connect |-> "ok", run |-> e, exit_code |-> 0,
      stdout |-> <<>>, stderr |-> ""] : a \in BOOLEAN, e \in RunErrors}
    \cup
    {[alive |-> a, connect |-> "ok", run |-> "ran", exit_code |-> x,
      stdout |-> s, stderr |-> IF x = 0 THEN "" ELSE "command failed"] :
        a \in BOOLEAN, x \in ExitCodes, s \in stdouts}

\* SSHExecutor._get_client: the client held afterwards and the exception
\* raised, if any
get_client(client, auth, o) ==
    IF client = "open" /\ o.alive THEN [client |-> "open", error |-> NoneV]
    ELSE IF auth = "key_missing"
         THEN [client |-> "none", error |-> Some(ErrorText("key_missing"))]
    ELSE IF auth = "key_unloadable"
         THEN [client |-> "none", error |-> Some(ErrorText("key_unloadable"))]
    ELSE IF auth = "invalid"
         THEN [client |-> "none", error |-> Some(ErrorText("invalid"))]
    ELSE IF o.connect # "ok"
         THEN [client |-> "none", error |-> Some(ErrorText(o.connect))]
    ELSE [client |-> "open", error |-> NoneV]

\* the try block of _exec: a CommandResult returned or an exception raised
exec_body(client, auth, o) ==
    LET g == get_client(client, auth, o)
    IN  IF ~IsNone(g.error)
        THEN [client |-> g.client, error |-> g.error,
              result |-> CommandResult(FALSE, <<>>, "", 0)]
        ELSE IF o.run # "ran"
        THEN [client |-> g.client, error |-> Some(ErrorText(o.run)),
              result |-> CommandResult(FALSE, <<>>, "", 0)]
        ELSE [client |-> g.client, error |-> NoneV,
              result |-> CommandResult(o.exit_code = 0, o.stdout, o.stderr,
                                       o.exit_code)]

\* execute catching paramiko's SSHException only: a missing or unloadable
\* key and an invalid auth configuration reach the caller
execute_catching_ssh_errors_only(client, auth, o) ==
    LET b == exec_body(client, auth, o)
    IN  IF IsNone(b.error)
        THEN [client |-> b.client, raised |-> FALSE, result |-> b.result]
        ELSE IF (client = "open" /\ o.alive) \/ auth \in {"key", "password"}
        THEN [client |-> b.client, raised |-> FALSE,
              result |-> CommandResult(FALSE, <<>>, b.error.val, -1)]
        ELSE [client |-> b.client, raised |-> TRUE, result |-> b.result]

\* SSHExecutor.execute: _exec with its `except Exception`
execute(client, auth, o) ==
    LET b == exec_body(client, auth, o)
    IN  IF IsNone(b.error)
        THEN [client |-> b.client, raised |-> FALSE, result |-> b.result]
        ELSE [client |-> b.client, raised |-> FALSE,
              result |-> CommandResult(FALSE, <<>>, b.error.val, -1)]

\* SSHExecutor._close
close(client) == "none"

(***************************************************************************)
(* More of Python's str and re operations.                                 *)
(***************************************************************************)
IsSpace(c) == c \in {" ", "\n", "\t"}

RECURSIVE LStripSpace(_)
LStripSpace(s) ==
    IF s # <<>> /\ IsSpace(Head(s)) THEN LStripSpace(Tail(s)) ELSE s

RECURSIVE RStripSpace(_)
RStripSpace(s) ==
    IF s # <<>> /\ IsSpace(s[Len(s)])
    THEN RStripSpace(SubSeq(s, 1, Len(s) - 1)) ELSE s

\* s.strip()
Strip(s) == RStripSpace(LStripSpace(s))

\* the number of digits s holds from position i on
RECURSIVE DigitRun(_, _)
DigitRun(s, i) ==
    IF i <= Len(s) /\ s[i] \in DigitChars THEN 1 + DigitRun(s, i + 1) ELSE 0

\* where a match of \d+\.\d+\.\d+ that starts at i ends (0: no match at i)
MatchEnd(s, i) ==
    LET n1 == DigitRun(s, i)
        j == i + n1
        n2 == DigitRun(s, j + 1)
        k == j + 1 + n2
        n3 == DigitRun(s, k + 1)
    IN  IF /\ n1 > 0 /\ j <= Len(s) /\ s[j] = "."
           /\ n2 > 0 /\ k <= Len(s) /\ s[k] = "."
           /\ n3 > 0
        THEN k + n3 ELSE 0

\* re.search(r"(\d+\.\d+\.\d+)", s): group(1) of the leftmost match
SearchSemver(s) ==
    LET starts == {i \in 1..Len(s) : MatchEnd(s, i) > 0}
        first == CHOOSE i \in starts : \A j \in starts : i <= j
    IN  IF starts = {} THEN NoneV ELSE Some(SubSeq(s, first, MatchEnd(s, first)))

(***************************************************************************)
(* What the remote commands of the workflow print.                         *)
(***************************************************************************)
TextPsJson == <<"{", "\"", "I", "\"", ":", "\"", "n", ":", "1", ".", "9", ".", "0", "\"", ",", "\"", "S", "\"", ":", "\"", "u", "p", "\"", "}", "\n">>

TextImageSemver == <<"n", ":", "1", ".", "9", ".", "0", "\n">>

TextImageLatest == <<"n", ":", "l", "a", "t", "e", "s", "t", "\n">>

TextCliVersion == <<"1", ".", "1", "0", ".", "0", "\n">>

TextCliNoVersion == <<"n", "8", "n", "\n">>

TextDate == <<"2", "0", "2", "4", "\n">>

TextUnknown == <<"u", "n", "k", "n", "o", "w", "n">>

TextBackup == <<"b", "a", "c", "k", "u", "p">>

TextDataDir == <<".", "n", "8", "n", "\n">>

TextNoDataDir == <<"\n">>

StdoutsOf(cmd) ==
    CASE cmd = "ps_json" -> {<<>>, TextPsJson}
      [] cmd = "ps_image" -> {<<>>, TextImageSemver, TextImageLatest}
      [] cmd = "cli_version" -> {<<>>, TextCliVersion, TextCliNoVersion}
      [] cmd = "date" -> {TextDate}
      [] cmd = "find_data" -> {TextDataDir, TextNoDataDir}
      [] OTHER -> {<<>>}

EnvOutcomes(cmd) == EnvOutcomesWith(StdoutsOf(cmd))

(***************************************************************************)
(* ssh_executor.py: SSHExecutor.update_n8n.                                *)
(*                                                                         *)
(* The run is a record: the locals of update_n8n, the executor's client,   *)
(* the place in the code (pc; `step` is the argument of the pending        *)
(* report_progress call, `ret` the call of get_current_version that is     *)
(* being served), and the history of the run: the commands issued (cmds),  *)
(* the exit status of the commands the claims speak of (rc), the calls of  *)
(* the progress callback (events) and whether one of them failed.          *)
(***************************************************************************)
total_steps == 8

RecordedCmds ==
    {"find_data", "tar", "cp_compose", "docker_pull", "compose_pull",
     "compose_down", "compose_up", "check_running",
     "restore_compose", "test_backup", "restore_data", "echo"}

InitRun(auth, observer) ==
    [pc |-> "report", step |-> 1, ret |-> 1,
     auth |-> auth, client |-> "none",
     observer |-> observer, cb_failed |-> FALSE,
     cmds |-> <<>>, events |-> <<>>,
     rc |-> [c \in RecordedCmds |-> "none"],
     old_version |-> NoneV, timestamp |-> <<>>, data_dir |-> <<>>,
     compose_backup_path |-> NoneV, data_backup_path |-> NoneV,
     details_parts |-> <<>>, result |-> NoneV]

UpdateResult(success, old, new, message, details, compose, data, can_rollback) ==
    [success |-> success, old_version |-> old, new_version |-> new,
     message |-> message, details |-> details,
     compose_backup_path |-> compose, data_backup_path |-> data,
     can_rollback |-> can_rollback]

\* bool(path) of an Optional[str]
Truthy(opt) == ~IsNone(opt) /\ opt.val # <<>>

\* the run after execute(cmd) met outcome o: the client and the history
Issued(w, cmd, o) ==
    LET x == execute(w.client, w.auth, o)
    IN  [w EXCEPT !.client = x.client,
                  !.cmds = Append(@, cmd),
                  !.rc = IF cmd \in RecordedCmds
                         THEN [@ EXCEPT ![cmd] = IF x.result.success
                                                 THEN "ok" ELSE "fail"]
                         ELSE @]

ResultOf(w, o) == execute(w.client, w.auth, o).result

\* a return that leaves the connection of the executor open
Return_without_close(w, result) ==
    [w EXCEPT !.result = Some(result), !.pc = "done"]

\* `return result` inside the try: the finally clause closes the client
Return(w, result) ==
    [w EXCEPT !.result = Some(result), !.client = close(w.client),
              !.pc = "done"]

\* the next statement is report_progress(k, ...)
Report(w, k) == [w EXCEPT !.pc = "report", !.step = k]

\* details_parts.append(f"{label}: {text}")
Detail(w, label, text) ==
    [w EXCEPT !.details_parts = Append(@, [label |-> label, text |-> text])]

\* the first command of stage k
StageEntry(k) ==
    CASE k = 1 -> "ps_json" [] k = 2 -> "date" [] k = 3 -> "cp_compose"
      [] k = 4 -> "grep_before" [] k = 5 -> "docker_pull"
      [] k = 6 -> "compose_down" [] k = 7 -> "compose_up"
      [] k = 8 -> "check_running"

\* an except clause that reports the failure without the state of the run
update_except_forgets(w) ==
    Return(w, UpdateResult(FALSE, NoneV, NoneV, "Update failed", <<>>,
                           NoneV, NoneV, FALSE))

\* the except clause of update_n8n
update_except(w) ==
    Return(w, UpdateResult(FALSE, w.old_version, NoneV, "Update failed",
                           w.details_parts, w.compose_backup_path,
                           w.data_backup_path, Truthy(w.compose_backup_path)))

\* report_progress without its try/except: a failing callback reaches the
\* except clause of update_n8n
report_progress_uncaught(w, fails) ==
    IF w.observer
    THEN LET w1 == [w EXCEPT !.events = Append(@, <<w.step, total_steps>>),
                             !.cb_failed = @ \/ fails]
         IN  IF fails THEN update_except(w1)
             ELSE [w1 EXCEPT !.pc = StageEntry(w.step)]
    ELSE [w EXCEPT !.pc = StageEntry(w.step)]

\* report_progress passing the index of the stage before
report_progress_stale_step(w, fails) ==
    IF w.observer
    THEN [w EXCEPT !.events = Append(@, <<IF w.step = 6 THEN 5 ELSE w.step,
                                          total_steps>>),
                   !.cb_failed = @ \/ fails,
                   !.pc = StageEntry(w.step)]
    ELSE [w EXCEPT !.pc = StageEntry(w.step)]

\* report_progress(step, message), the callback failing or not
report_progress(w, fails) ==
    IF w.observer
    THEN [w EXCEPT !.events = Append(@, <<w.step, total_steps>>),
                   !.cb_failed = @ \/ fails,
                   !.pc = StageEntry(w.step)]
    ELSE [w EXCEPT !.pc = StageEntry(w.step)]

(***************************************************************************)
(* get_current_version, called by stage 1 (ret = 1) and stage 8 (ret = 8). *)
(***************************************************************************)
\* the version in the image name a command printed, if it parses
ImageVersion(r) ==
    IF r.success /\ Strip(r.stdout) # <<>>
    THEN LET image == Split(Strip(r.stdout), "\n")[1]
             version == SplitLast(image, ":")
         IN  IF Contains(image, ":") /\ ~IsNone(parse_version(version))
             THEN Some(version) ELSE NoneV
    ELSE NoneV

\* the version the n8n CLI printed, if any
CliVersion(r) ==
    IF r.success /\ Strip(r.stdout) # <<>> THEN SearchSemver(r.stdout)
    ELSE NoneV

\* `version or 'unknown'` of the detail lines
OrUnknown(v) == IF Truthy(v) THEN v.val ELSE TextUnknown

(* ---- the other callers of get_current_version: what they do with the  *)
(*      version (ret is the line of the call in ssh_executor.py)      ---- *)
RollbackResult(success, restored_version, message, details) ==
    [success |-> success, restored_version |-> restored_version,
     message |-> message, details |-> details]

\* rollback_n8n: the detail line and the successful result
rollback_got_version(w, v) ==
    LET w1 == Detail(w, "Restored version", OrUnknown(v))
    IN  Return(w1, RollbackResult(TRUE, v, "Rollback completed successfully",
                                  w1.details_parts))

\* perform_full_health_check: the version is kept; with a URL configured
\* the UI is checked next, without one the result is healthy
health_got_version(w, v) ==
    LET w1 == [w EXCEPT !.res.version = v]
    IN  IF Truthy(w.n8n_url) THEN [w1 EXCEPT !.pc = "url"]
        ELSE LET w2 == [w1 EXCEPT !.res.ui_accessible = NoneV,
                                  !.res.is_healthy = TRUE]
             IN  Return(w2, w2.res)

\* get_server_status: the version is kept, check_n8n_running comes next
status_got_version(w, v) == [w EXCEPT !.version = v, !.pc = "check_running"]

after_version(w, v) ==
    CASE w.ret = 605 -> rollback_got_version(w, v)
      [] w.ret = 789 -> health_got_version(w, v)
      [] w.ret = 657 -> status_got_version(w, v)

\* update_n8n reporting a successful update as one that may be rolled back
got_version_rollback_kept(w, v) ==
    IF w.ret = 1
    THEN Report(Detail([w EXCEPT !.old_version = v],
                       "Old version", OrUnknown(v)), 2)
    ELSE LET w1 == Detail(w, "New version", OrUnknown(v))
         IN  Return(w1, UpdateResult(TRUE, w1.old_version, v,
                        "Update completed successfully", w1.details_parts,
                        w1.compose_backup_path, w1.data_backup_path,
                        Truthy(w1.compose_backup_path)))

\* the statements after `await self.get_current_version()`: stage 1 keeps
\* the old version and goes on, stage 8 returns the successful result
got_version(w, v) ==
    IF w.ret = 1
    THEN Report(Detail([w EXCEPT !.old_version = v],
                       "Old version", OrUnknown(v)), 2)
    ELSE IF w.ret = 8
    THEN LET w1 == Detail(w, "New version", OrUnknown(v))
         IN  Return(w1, UpdateResult(TRUE, w1.old_version, v,
                        "Update completed successfully", w1.details_parts,
                        w1.compose_backup_path, w1.data_backup_path, FALSE))
    ELSE after_version(w, v)

from_image(w, r) ==
    IF ~IsNone(ImageVersion(r)) THEN got_version(w, ImageVersion(r))
    ELSE [w EXCEPT !.pc = "cli_version"]

do_ps_json(w, o) ==
    LET r == ResultOf(w, o)
        w1 == Issued(w, "ps_json", o)
    IN  IF ~r.success THEN [w1 EXCEPT !.pc = "ps_image"]
        ELSE from_image(w1, r)

do_ps_image(w, o) == from_image(Issued(w, "ps_image", o), ResultOf(w, o))

do_cli_version(w, o) ==
    got_version(Issued(w, "cli_version", o), CliVersion(ResultOf(w, o)))

(***************************************************************************)
(* Stages 2 to 8 of update_n8n, one operator for each awaited command.     *)
(***************************************************************************)
\* f"{backup_dir}/docker-compose.yml.{timestamp}"
ComposeBackupPath(timestamp) == <<"b", "/", "c", ".">> \o timestamp

\* f"{backup_dir}/n8n_backup_{timestamp}.tar.gz"
DataBackupPath(timestamp) == <<"b", "/", "d", "_">> \o timestamp \o <<".", "t">>

\* the failure result of a fatal stage: details=result.output
Failed(w, message) ==
    Return(w, UpdateResult(FALSE, w.old_version, NoneV, message,
                           <<[label |-> "output", text |-> <<>>]>>,
                           w.compose_backup_path, w.data_backup_path,
                           Truthy(w.compose_backup_path)))

do_date(w, o) ==
    LET r == ResultOf(w, o)
    IN  [Issued(w, "date", o) EXCEPT
            !.timestamp = IF r.success THEN Strip(r.stdout) ELSE TextBackup,
            !.pc = "find_data"]

do_find_data(w, o) ==
    LET r == ResultOf(w, o)
    IN  [Issued(w, "find_data", o) EXCEPT
            !.data_dir = IF r.success THEN Strip(r.stdout) ELSE <<>>,
            !.pc = "mkdir"]

do_mkdir(w, o) ==
    LET w1 == Issued(w, "mkdir", o)
    IN  IF w1.data_dir # <<>>
        THEN [w1 EXCEPT !.data_backup_path = Some(DataBackupPath(w.timestamp)),
                        !.pc = "tar"]
        ELSE Report(Detail(w1, "No data dir found, skipping data backup", <<>>), 3)

do_tar(w, o) ==
    LET r == ResultOf(w, o)
        w1 == Issued(w, "tar", o)
    IN  IF r.success
        THEN Report(Detail(w1, "Data backup", w1.data_backup_path.val), 3)
        ELSE Report([Detail(w1, "Data backup failed (continuing anyway)", <<>>)
                        EXCEPT !.data_backup_path = NoneV], 3)

\* stage 3 going on to stage 4 without copying docker-compose.yml
do_cp_compose_skipped(w, o) ==
    LET path == ComposeBackupPath(w.timestamp)
    IN  Report(Detail([w EXCEPT !.compose_backup_path = Some(path)],
                      "Config backup", path), 4)

do_cp_compose(w, o) ==
    LET path == ComposeBackupPath(w.timestamp)
        w1 == [Issued(w, "cp_compose", o) EXCEPT
                  !.compose_backup_path = Some(path)]
    IN  Report(Detail(w1, "Config backup", path), 4)

do_grep_before(w, o) ==
    [Detail(Issued(w, "grep_before", o), "Current", <<>>) EXCEPT !.pc = "sed_registry"]

do_sed_registry(w, o) == [Issued(w, "sed_registry", o) EXCEPT !.pc = "sed_hub"]

do_sed_hub(w, o) == [Issued(w, "sed_hub", o) EXCEPT !.pc = "grep_after"]

do_grep_after(w, o) ==
    Report(Detail(Issued(w, "grep_after", o), "Updated to", <<>>), 5)

do_docker_pull(w, o) ==
    LET w1 == Issued(w, "docker_pull", o)
    IN  IF ResultOf(w, o).success
        THEN [Detail(w1, "Latest image pulled", <<>>) EXCEPT !.pc = "compose_pull"]
        ELSE [w1 EXCEPT !.pc = "compose_pull"]

\* stage 5 going on to stage 6 after a failed pull
do_compose_pull_not_fatal(w, o) ==
    Report(Detail(Issued(w, "compose_pull", o), "Image pulled successfully", <<>>), 6)

do_compose_pull(w, o) ==
    LET w1 == Issued(w, "compose_pull", o)
    IN  IF ~ResultOf(w, o).success THEN Failed(w1, "Failed to pull new image")
        ELSE Report(Detail(w1, "Image pulled successfully", <<>>), 6)

do_compose_down(w, o) ==
    LET w1 == Issued(w, "compose_down", o)
    IN  IF ~ResultOf(w, o).success THEN Failed(w1, "Failed to stop containers")
        ELSE Report(Detail(w1, "Containers stopped", <<>>), 7)

\* the start command's result, then asyncio.sleep(10)
do_compose_up(w, o) ==
    LET w1 == Issued(w, "compose_up", o)
    IN  IF ~ResultOf(w, o).success THEN Failed(w1, "Failed to start containers")
        ELSE Report(Detail(w1, "Containers started", <<>>), 8)

\* stage 8 taking the containers for running whatever check_n8n_running says
do_check_running_unchecked(w, o) ==
    [Issued(w, "check_running", o) EXCEPT !.ret = 8, !.pc = "ps_json"]

\* check_n8n_running and the test of its result
do_check_running(w, o) ==
    LET w1 == Issued(w, "check_running", o)
    IN  IF ~ResultOf(w, o).success
        THEN Return(w1, UpdateResult(FALSE, w1.old_version, NoneV,
                        "n8n container failed to start", w1.details_parts,
                        w1.compose_backup_path, w1.data_backup_path,
                        Truthy(w1.compose_backup_path)))
        ELSE [w1 EXCEPT !.ret = 8, !.pc = "ps_json"]

\* one step of the run from where it stands
UpdateStep(w, o, fails) ==
    CASE w.pc = "report" -> report_progress(w, fails)
      [] w.pc = "ps_json" -> do_ps_json(w, o)
      [] w.pc = "ps_image" -> do_ps_image(w, o)
      [] w.pc = "cli_version" -> do_cli_version(w, o)
      [] w.pc = "date" -> do_date(w, o)
      [] w.pc = "find_data" -> do_find_data(w, o)
      [] w.pc = "mkdir" -> do_mkdir(w, o)
      [] w.pc = "tar" -> do_tar(w, o)
      [] w.pc = "cp_compose" -> do_cp_compose(w, o)
      [] w.pc = "grep_before" -> do_grep_before(w, o)
      [] w.pc = "sed_registry" -> do_sed_registry(w, o)
      [] w.pc = "sed_hub" -> do_sed_hub(w, o)
      [] w.pc = "grep_after" -> do_grep_after(w, o)
      [] w.pc = "docker_pull" -> do_docker_pull(w, o)
      [] w.pc = "compose_pull" -> do_compose_pull(w, o)
      [] w.pc = "compose_down" -> do_compose_down(w, o)
      [] w.pc = "compose_up" -> do_compose_up(w, o)
      [] w.pc = "check_running" -> do_check_running(w, o)
      [] w.pc = "done" -> w

(***************************************************************************)
(* States and actions.                                                     *)
(***************************************************************************)
IdleVersion ==
    /\ current = <<>>
    /\ latest = <<>>
    /\ cmp = [done |-> FALSE, value |-> 0]
    /\ category = [list |-> "none", connected |-> FALSE, has_version |-> FALSE]

NoCall ==
    [called |-> FALSE, client_before |-> "none",
     o |-> [alive |-> FALSE, connect |-> "ok", run |-> "ran", exit_code |-> 0,
            stdout |-> <<>>, stderr |-> ""],
     raised |-> FALSE, result |-> CommandResult(FALSE, <<>>, "", 0)]

IdleChan == chan = [auth |-> "key", client |-> "none", calls |-> 0, last |-> NoCall]

IdleUpdate == upd = InitRun("key", FALSE) /\ ref = InitRun("key", FALSE)

\* no rollback, health check or status query started, the tables empty
NotStarted == [pc |-> "idle", client |-> "none", result |-> NoneV]

IdleRuns == rb = NotStarted /\ hc = NotStarted /\ st = NotStarted

IdleOps ==
    /\ IdleRuns
    /\ health = <<>>
    /\ backups = [rows |-> {}, lastrowid |-> 0, now |-> 0, log |-> <<>>]
    /\ bot = NotStarted

(* ---- the version resolver: compare_versions and its caller ---- *)
InitVersion ==
    /\ current \in VersionTexts
    /\ latest \in VersionTexts
    /\ cmp = [done |-> FALSE, value |-> 0]
    /\ category = [list |-> "none", connected |-> FALSE, has_version |-> FALSE]
    /\ IdleChan
    /\ IdleUpdate
    /\ IdleOps

CompareVersions ==
    /\ ~cmp.done
    /\ cmp' = [done |-> TRUE, value |-> compare_versions(current, latest)]
    /\ UNCHANGED <<current, latest, category, chan, upd, ref, opsVars>>

\* check_updates: one status of the loop over the statuses
CheckUpdates ==
    /\ category.list = "none"
    /\ \E connected \in BOOLEAN, has_version \in BOOLEAN :
          LET status == [connected |-> connected,
                         version |-> IF connected /\ has_version
                                     THEN Some(current) ELSE NoneV]
          IN  category' = [list |-> classify_status(status, latest),
                           connected |-> connected,
                           has_version |-> ~IsNone(status.version)]
    /\ UNCHANGED <<current, latest, cmp, chan, upd, ref, opsVars>>

NextVersion == CompareVersions \/ CheckUpdates

SpecVersion == InitVersion /\ [][NextVersion]_vars

(* ---- the command channel: execute and _close on one handle ---- *)
InitExec ==
    /\ IdleVersion
    /\ \E a \in AuthConfigs :
          chan = [auth |-> a, client |-> "none", calls |-> 0, last |-> NoCall]
    /\ IdleUpdate
    /\ IdleOps

Execute ==
    /\ chan.calls < MaxCalls
    /\ \E cmd \in {"ps_image", "find_data"} : \E o \in EnvOutcomes(cmd) :
          LET x == execute(chan.client, chan.auth, o)
          IN  chan' = [chan EXCEPT
                          !.client = x.client,
                          !.calls = @ + 1,
                          !.last = [called |-> TRUE,
                                    client_before |-> chan.client,
                                    o |-> o, raised |-> x.raised,
                                    result |-> x.result]]
    /\ UNCHANGED <<versionVars, upd, ref, opsVars>>

Close ==
    /\ chan.client = "open"
    /\ chan' = [chan EXCEPT !.client = close(chan.client)]
    /\ UNCHANGED <<versionVars, upd, ref, opsVars>>

NextExec == Execute \/ Close

SpecExec == InitExec /\ [][NextExec]_vars

(***************************************************************************)
(* Claims about the command channel and the version resolver.              *)
(***************************************************************************)
\* whether the call found or opened a connection, told from the environment
CallConnected(l) ==
    \/ l.client_before = "open" /\ l.o.alive
    \/ chan.auth \in {"key", "password"} /\ l.o.connect = "ok"

CallRan(l) == CallConnected(l) /\ l.o.run = "ran"

\* the text of the failure the call met
CallFailureText(l) ==
    IF CallConnected(l) THEN ErrorText(l.o.run)
    ELSE IF chan.auth \in {"key", "password"} THEN ErrorText(l.o.connect)
    ELSE ErrorText(chan.auth)

\* C1: execute never raises to its caller.  A command that ran returns its
\* exit code, stdout and stderr with success == (exit_code == 0), a non-zero
\* exit code being a normal result; a connection, authentication,
\* key-loading or timeout failure returns exit_code == -1, success == false,
\* an empty stdout and the error text in stderr.
C1_ExecuteNeverRaises ==
    chan.last.called =>
        LET l == chan.last
        IN  /\ ~l.raised
            /\ CallRan(l) =>
                  /\ l.result.exit_code = l.o.exit_code
                  /\ l.result.success = (l.o.exit_code = 0)
                  /\ l.result.stdout = l.o.stdout
                  /\ l.result.stderr = l.o.stderr
            /\ ~CallRan(l) =>
                  l.result = CommandResult(FALSE, <<>>, CallFailureText(l), -1)

\* C1 witness: the second call on a handle finds the held connection dead,
\* is refused the new connection, and answers with exit code -1
C1_Witness ==
    /\ chan.last.called
    /\ chan.last.client_before = "open"
    /\ ~chan.last.o.alive
    /\ chan.last.o.connect = "refused"
    /\ chan.last.result.exit_code = -1
    /\ chan.last.result.stderr = "Unable to connect"

\* the numbers of the version texts, known from how the texts are written
KnownNumbers ==
    {<<Render(ma, mi, pa), <<ma, mi, pa>>>> :
        ma \in 0..MaxMajor, mi \in MinorVals, pa \in 0..MaxPatch}
    \cup
    { <<<<"v">> \o Render(1, 9, 0), <<1, 9, 0>>>>,
      <<<<"v", "v">> \o Render(1, 10, 0), <<1, 10, 0>>>>,
      <<<<"n", ":">> \o Render(1, 69, 0), <<1, 69, 0>>>>,
      <<<<"n", ":", "v">> \o Render(1, 70, 0), <<1, 70, 0>>>>,
      <<<<"h", ":", "5", "/", "n", ":">> \o Render(1, 9, 1), <<1, 9, 1>>>>,
      <<Render(1, 10, 0) \o <<"\n">>, <<1, 10, 0>>>>,
      <<<<"0", "1", ".", "0", "9", ".", "0">>, <<1, 9, 0>>>>,
      <<<<"1", ".", "1", "0", ".", "0", "0">>, <<1, 10, 0>>>> }

ParsableTexts == PlainVersions \cup DecoratedVersions

NumbersOf(text) == (CHOOSE k \in KnownNumbers : k[1] = text)[2]

\* the sign of the numeric lexicographic comparison of two triples
LexSign(a, b) ==
    IF a[1] # b[1] THEN (IF a[1] < b[1] THEN -1 ELSE 1)
    ELSE IF a[2] # b[2] THEN (IF a[2] < b[2] THEN -1 ELSE 1)
    ELSE IF a[3] # b[3] THEN (IF a[3] < b[3] THEN -1 ELSE 1)
    ELSE 0

\* C2: for version texts a and b that both parse as MAJOR.MINOR.PATCH,
\* compare_versions(a, b) == -compare_versions(b, a), and
\* compare_versions(a, a) == 0.
C2_CompareAntisymmetric ==
    (cmp.done /\ current \in ParsableTexts /\ latest \in ParsableTexts) =>
        /\ cmp.value = -compare_versions(latest, current)
        /\ current = latest => cmp.value = 0

\* C2 witness: two different parsable texts compared, the first the higher
C2_Witness ==
    /\ cmp.done
    /\ current = Render(1, 10, 0) \o <<"\n">>
    /\ latest = <<"v">> \o Render(1, 9, 0)
    /\ cmp.value = 1

\* C3: if either operand fails to parse as a semantic version the result is
\* 0, never -1 or 1, and a status whose version is unknown or unparsable is
\* never put among the targets that need an update.
C3_UnparsableIsNeutral ==
    /\ (cmp.done /\ (current \in UnparsableVersions \/ latest \in UnparsableVersions))
          => cmp.value = 0
    /\ category.list = "updates_available" =>
          /\ category.has_version
          /\ current \in ParsableTexts
          /\ latest \in ParsableTexts

\* C3 witness: an unparsable current version compared with a parsable latest
C3_Witness ==
    /\ cmp.done
    /\ current = <<"l", "a", "t", "e", "s", "t">>
    /\ latest = Render(1, 70, 0)
    /\ cmp.value = 0

\* C4: for parsable operands compare_versions is the sign of the numeric
\* lexicographic comparison of the (major, minor, patch) triples (1.69.0
\* against 1.70.0 gives -1, and 1.9.0 is lower than 1.10.0), and check_updates
\* offers the update for a target exactly when the result is -1.
C4_CompareIsLexSign ==
    /\ (cmp.done /\ current \in ParsableTexts /\ latest \in ParsableTexts)
          => cmp.value = LexSign(NumbersOf(current), NumbersOf(latest))
    /\ (cmp.done /\ current = Render(1, 69, 0) /\ latest = Render(1, 70, 0))
          => cmp.value = -1
    /\ (cmp.done /\ current = Render(1, 9, 0) /\ latest = Render(1, 10, 0))
          => cmp.value = -1
    /\ (cmp.done /\ category.list # "none" /\ category.has_version /\ current # <<>>)
          => (category.list = "updates_available" <=> cmp.value = -1)

\* C4 witness: 1.9.0 compared with 1.10.0 and the update offered
C4_Witness ==
    /\ cmp.done
    /\ current = Render(1, 9, 0)
    /\ latest = Render(1, 10, 0)
    /\ cmp.value = -1
    /\ category.list = "updates_available"

(* ---- the update workflow: one run of update_n8n on a fresh executor ---- *)
Init ==
    /\ IdleVersion
    /\ IdleChan
    /\ IdleOps
    /\ \E a \in AuthConfigs, observer \in BOOLEAN :
          /\ upd = InitRun(a, observer)
          /\ ref = InitRun(a, FALSE)

\* report_progress(step, ...): the callback, if any, is called and may fail
ReportProgress ==
    /\ upd.pc = "report"
    /\ \E fails \in BOOLEAN : upd' = report_progress(upd, fails)
    /\ UNCHANGED <<versionVars, chan, ref, opsVars>>

\* get_current_version: docker compose ps
PsJson ==
    /\ upd.pc = "ps_json"
    /\ \E o \in EnvOutcomes("ps_json") : upd' = do_ps_json(upd, o)
    /\ UNCHANGED <<versionVars, chan, ref, opsVars>>

\* get_current_version: docker ps, when the first command failed
PsImage ==
    /\ upd.pc = "ps_image"
    /\ \E o \in EnvOutcomes("ps_image") : upd' = do_ps_image(upd, o)
    /\ UNCHANGED <<versionVars, chan, ref, opsVars>>

\* get_current_version: n8n --version
CliVersionCmd ==
    /\ upd.pc = "cli_version"
    /\ \E o \in EnvOutcomes("cli_version") : upd' = do_cli_version(upd, o)
    /\ UNCHANGED <<versionVars, chan, ref, opsVars>>

\* stage 2: the timestamp of the remote host
Date ==
    /\ upd.pc = "date"
    /\ \E o \in EnvOutcomes("date") : upd' = do_date(upd, o)
    /\ UNCHANGED <<versionVars, chan, ref, opsVars>>

\* stage 2: look for the data directory
FindData ==
    /\ upd.pc = "find_data"
    /\ \E o \in EnvOutcomes("find_data") : upd' = do_find_data(upd, o)
    /\ UNCHANGED <<versionVars, chan, ref, opsVars>>

\* stage 2: create the backups directory
Mkdir ==
    /\ upd.pc = "mkdir"
    /\ \E o \in EnvOutcomes("mkdir") : upd' = do_mkdir(upd, o)
    /\ UNCHANGED <<versionVars, chan, ref, opsVars>>

\* stage 2: archive the data directory
Tar ==
    /\ upd.pc = "tar"
    /\ \E o \in EnvOutcomes("tar") : upd' = do_tar(upd, o)
    /\ UNCHANGED <<versionVars, chan, ref, opsVars>>

\* stage 3: copy docker-compose.yml
CpCompose ==
    /\ upd.pc = "cp_compose"
    /\ \E o \in EnvOutcomes("cp_compose") : upd' = do_cp_compose(upd, o)
    /\ UNCHANGED <<versionVars, chan, ref, opsVars>>

\* stage 4: read the image line
GrepBefore ==
    /\ upd.pc = "grep_before"
    /\ \E o \in EnvOutcomes("grep_before") : upd' = do_grep_before(upd, o)
    /\ UNCHANGED <<versionVars, chan, ref, opsVars>>

\* stage 4: rewrite a docker.n8n.io image reference
SedRegistry ==
    /\ upd.pc = "sed_registry"
    /\ \E o \in EnvOutcomes("sed_registry") : upd' = do_sed_registry(upd, o)
    /\ UNCHANGED <<versionVars, chan, ref, opsVars>>

\* stage 4: rewrite an n8nio/n8n image reference
SedHub ==
    /\ upd.pc = "sed_hub"
    /\ \E o \in EnvOutcomes("sed_hub") : upd' = do_sed_hub(upd, o)
    /\ UNCHANGED <<versionVars, chan, ref, opsVars>>

\* stage 4: read the image line again
GrepAfter ==
    /\ upd.pc = "grep_after"
    /\ \E o \in EnvOutcomes("grep_after") : upd' = do_grep_after(upd, o)
    /\ UNCHANGED <<versionVars, chan, ref, opsVars>>

\* stage 5: docker pull n8nio/n8n:latest
DockerPull ==
    /\ upd.pc = "docker_pull"
    /\ \E o \in EnvOutcomes("docker_pull") : upd' = do_docker_pull(upd, o)
    /\ UNCHANGED <<versionVars, chan, ref, opsVars>>

\* stage 5: docker compose pull
ComposePull ==
    /\ upd.pc = "compose_pull"
    /\ \E o \in EnvOutcomes("compose_pull") : upd' = do_compose_pull(upd, o)
    /\ UNCHANGED <<versionVars, chan, ref, opsVars>>

\* stage 6: docker compose down
ComposeDown ==
    /\ upd.pc = "compose_down"
    /\ \E o \in EnvOutcomes("compose_down") : upd' = do_compose_down(upd, o)
    /\ UNCHANGED <<versionVars, chan, ref, opsVars>>

\* stage 7: docker compose up -d, then the settle wait
ComposeUp ==
    /\ upd.pc = "compose_up"
    /\ \E o \in EnvOutcomes("compose_up") : upd' = do_compose_up(upd, o)
    /\ UNCHANGED <<versionVars, chan, ref, opsVars>>

\* stage 8: check_n8n_running
CheckRunning ==
    /\ upd.pc = "check_running"
    /\ \E o \in EnvOutcomes("check_running") : upd' = do_check_running(upd, o)
    /\ UNCHANGED <<versionVars, chan, ref, opsVars>>

Next ==
    \/ ReportProgress
    \/ PsJson
    \/ PsImage
    \/ CliVersionCmd
    \/ Date
    \/ FindData
    \/ Mkdir
    \/ Tar
    \/ CpCompose
    \/ GrepBefore
    \/ SedRegistry
    \/ SedHub
    \/ GrepAfter
    \/ DockerPull
    \/ ComposePull
    \/ ComposeDown
    \/ ComposeUp
    \/ CheckRunning

Spec == Init /\ [][Next]_vars

(* ---- the run with an observer and the run without one, side by side:  *)
(*      each command of the two runs meets the same outcome             ---- *)
\* what one step of a run at pc may meet: a command's outcome, or, at a
\* report_progress call, the callback failing or not
StepOutcomes(pc) ==
    IF pc \in {"report", "done"} THEN {NoCall.o} ELSE EnvOutcomes(pc)

StepFailures(pc) == IF pc = "report" THEN BOOLEAN ELSE {FALSE}

BothStep ==
    /\ upd.pc # "done" \/ ref.pc # "done"
    /\ \E o \in StepOutcomes(upd.pc), fails \in StepFailures(upd.pc) :
          /\ upd' = UpdateStep(upd, o, fails)
          /\ ref' = UpdateStep(ref, o, fails)
    /\ UNCHANGED <<versionVars, chan, opsVars>>

SpecObserver == Init /\ [][BothStep]_vars

(***************************************************************************)
(* Claims about the update workflow.                                       *)
(***************************************************************************)
GcvCmds == {"ps_json", "ps_image", "cli_version"}

\* the stage the i-th command of a run belongs to, told from the command
StageOfCmdAt(cmds, i) ==
    LET c == cmds[i]
    IN  IF c \in GcvCmds
        THEN (IF \E j \in 1..(i - 1) : cmds[j] = "check_running" THEN 8 ELSE 1)
        ELSE CASE c \in {"date", "find_data", "mkdir", "tar"} -> 2
               [] c = "cp_compose" -> 3
               [] c \in {"grep_before", "sed_registry", "sed_hub", "grep_after"} -> 4
               [] c \in {"docker_pull", "compose_pull"} -> 5
               [] c = "compose_down" -> 6
               [] c = "compose_up" -> 7
               [] c = "check_running" -> 8

\* the stage of the last command issued (0: none yet)
StageReached(cmds) == IF cmds = <<>> THEN 0 ELSE StageOfCmdAt(cmds, Len(cmds))

Issues(w, c) == \E i \in 1..Len(w.cmds) : w.cmds[i] = c

Finished(w) == w.pc = "done" /\ ~IsNone(w.result)

\* C5 (as claimed): every failed UpdateResult has can_rollback true if and
\* only if the configuration-snapshot copy of stage 3 succeeded.
C5_RollbackIffConfigSnapshot ==
    (Finished(upd) /\ ~upd.result.val.success) =>
        (upd.result.val.can_rollback <=> upd.rc["cp_compose"] = "ok")

\* C6: when the command of a fatal stage (pull, stop, start) exits non-zero
\* the workflow returns a failed result at once, the result keeps the
\* snapshot references, and no command of a later stage is issued: a run
\* that fails at pull never issues the stop command, a run that fails at
\* stop never issues the start command.
C6_FatalStageHalts ==
    \A c \in {"compose_pull", "compose_down", "compose_up"} :
        upd.rc[c] = "fail" =>
            /\ Finished(upd)
            /\ ~upd.result.val.success
            /\ upd.cmds[Len(upd.cmds)] = c
            /\ c = "compose_pull" => ~Issues(upd, "compose_down")
            /\ c \in {"compose_pull", "compose_down"} => ~Issues(upd, "compose_up")
            /\ ~Issues(upd, "check_running")
            /\ upd.result.val.compose_backup_path
                  = Some(ComposeBackupPath(upd.timestamp))
            /\ upd.result.val.data_backup_path
                  = IF upd.rc["tar"] = "ok"
                    THEN Some(DataBackupPath(upd.timestamp)) ELSE NoneV

\* C6 witness: the pull fails after both snapshots were taken
C6_Witness ==
    /\ Finished(upd)
    /\ upd.rc["compose_pull"] = "fail"
    /\ upd.rc["tar"] = "ok"
    /\ upd.rc["cp_compose"] = "ok"
    /\ upd.result.val.message = "Failed to pull new image"

\* C7: a run that succeeds returns can_rollback == false: in every returned
\* UpdateResult can_rollback == true implies success == false.
C7_SuccessNeverRollback ==
    Finished(upd) => (upd.result.val.can_rollback => ~upd.result.val.success)

\* C7 witness: a successful run that took a configuration snapshot
C7_Witness ==
    /\ Finished(upd)
    /\ upd.result.val.success
    /\ upd.rc["cp_compose"] = "ok"
    /\ Truthy(upd.result.val.compose_backup_path)
    /\ ~upd.result.val.can_rollback

\* C8: update_n8n returns success == true if and only if the compose pull,
\* stop and start commands all exit zero and the liveness probe after the
\* settle wait passes; an unknown current version, a missing data directory
\* or a failed data archive never ends the run before the pull.
C8_SuccessIffFatalStagesPass ==
    Finished(upd) =>
        /\ upd.result.val.success <=>
              /\ upd.rc["compose_pull"] = "ok"
              /\ upd.rc["compose_down"] = "ok"
              /\ upd.rc["compose_up"] = "ok"
              /\ upd.rc["check_running"] = "ok"
        /\ upd.rc["compose_pull"] # "none"
        /\ upd.rc["check_running"] = "fail" =>
              upd.result.val.message = "n8n container failed to start"

\* C8 witness: success although the current version was unknown and the
\* data archive failed
C8_Witness ==
    /\ Finished(upd)
    /\ upd.result.val.success
    /\ IsNone(upd.result.val.old_version)
    /\ upd.rc["tar"] = "fail"

\* C9: the stages run in the order 1 to 8, none skipped; for an observed
\* run the progress events carry the indices 1, 2, ... with total 8, each
\* emitted before the first command of its stage, and a run that ends at
\* stage k has emitted exactly the indices 1..k.
C9_StagesInOrder ==
    /\ upd.cmds # <<>> => StageOfCmdAt(upd.cmds, 1) = 1
    /\ \A i \in 1..(Len(upd.cmds) - 1) :
          StageOfCmdAt(upd.cmds, i + 1) - StageOfCmdAt(upd.cmds, i) \in {0, 1}
    /\ ~upd.observer => upd.events = <<>>
    /\ upd.observer =>
          /\ \A i \in 1..Len(upd.events) : upd.events[i] = <<i, 8>>
          /\ upd.pc \in {"report", "done"} =>
                Len(upd.events) = StageReached(upd.cmds)
          /\ upd.pc \notin {"report", "done"} =>
                Len(upd.events) = StageReached(Append(upd.cmds, upd.pc))

\* C9 witness: an observed run that ends at stage 6, the stop command failing
C9_Witness ==
    /\ Finished(upd)
    /\ upd.observer
    /\ upd.rc["compose_down"] = "fail"
    /\ upd.events = <<<<1, 8>>, <<2, 8>>, <<3, 8>>, <<4, 8>>, <<5, 8>>, <<6, 8>>>>

\* C10: a progress observer that fails on any subset of its invocations
\* never alters the workflow: meeting the same command results, the observed
\* run issues the same commands and returns the same UpdateResult as the run
\* with no observer.
C10_ObserverNeverAlters ==
    /\ upd.cmds = ref.cmds
    /\ upd.result = ref.result

\* C10 witness: a successful observed run whose observer failed
C10_Witness ==
    /\ Finished(upd)
    /\ Finished(ref)
    /\ upd.observer
    /\ upd.cb_failed
    /\ upd.result.val.success

(***************************************************************************)
(* storage.py: the backups table.  A row's created_at is the second of     *)
(* CURRENT_TIMESTAMP at which it was inserted; `log` is the history of the *)
(* inserts (log[i] is the server of the row with id i).                    *)
(***************************************************************************)
ServerIds == {1, 2}

MaxBackups == 5

MaxClock == 3

keep_count == 3

EmptyBackups == [rows |-> {}, lastrowid |-> 0, now |-> 0, log |-> <<>>]

\* INSERT INTO backups: AUTOINCREMENT id, created_at and used by default
save_backup_info(b, server_id, compose, data, old_version) ==
    [b EXCEPT
        !.lastrowid = @ + 1,
        !.log = Append(@, server_id),
        !.rows = @ \cup {[id |-> b.lastrowid + 1, server_id |-> server_id,
                          compose_backup_path |-> compose,
                          data_backup_path |-> data,
                          old_version |-> old_version,
                          created_at |-> b.now, used |-> 0]}]

get_backup(b, backup_id) ==
    IF \E r \in b.rows : r.id = backup_id
    THEN Some(CHOOSE r \in b.rows : r.id = backup_id)
    ELSE NoneV

\* UPDATE backups SET used = 1 WHERE id = ?
mark_backup_used(b, backup_id) ==
    [b EXCEPT !.rows = {IF r.id = backup_id THEN [r EXCEPT !.used = 1] ELSE r :
                        r \in @}]

\* SELECT id FROM backups WHERE server_id = ? ORDER BY created_at DESC
\* LIMIT ?: the sets of ids the query may return.  Rows of one second are
\* returned in an order SQL leaves open.
NewestIds(rows, server_id, limit) ==
    LET mine == {r \in rows : r.server_id = server_id}
        n == IF Cardinality(mine) < limit THEN Cardinality(mine) ELSE limit
    IN  {K \in SUBSET {r.id : r \in mine} :
            /\ Cardinality(K) = n
            /\ \A r \in mine, q \in mine :
                  (r.id \in K /\ q.id \notin K) => r.created_at >= q.created_at}

\* the DELETE without `server_id = ?`: every row outside <newest> goes
delete_old_backups_of_all(b, server_id, newest) ==
    [b EXCEPT !.rows = {r \in @ : r.id \in newest}]

\* DELETE FROM backups WHERE server_id = ? AND id NOT IN (<newest>)
delete_old_backups(b, server_id, newest) ==
    [b EXCEPT !.rows = {r \in @ : r.server_id # server_id \/ r.id \in newest}]

\* `old_version or ""`
OrEmpty(v) == IF Truthy(v) THEN v.val ELSE <<>>

\* the results update_n8n hands to execute_updates, as far as the table
\* is concerned: the snapshot paths it carries
UpdateResults ==
    {UpdateResult(success, NoneV, NoneV, "", <<>>, c, d, ~success /\ Truthy(c)) :
        success \in BOOLEAN,
        c \in {NoneV, Some(ComposeBackupPath(Strip(TextDate)))},
        d \in {NoneV, Some(DataBackupPath(Strip(TextDate)))}}

\* execute_updates, after update_n8n returned `result` for server_id: the
\* snapshot is recorded and the retention pass run
record_backup(b, server_id, result, newest) ==
    delete_old_backups(
        save_backup_info(b, server_id, result.compose_backup_path.val,
                         result.data_backup_path, OrEmpty(result.old_version)),
        server_id, newest)

(* ---- the backups table under updates of two targets ---- *)
InitBackups ==
    /\ IdleVersion
    /\ IdleChan
    /\ IdleUpdate
    /\ IdleRuns
    /\ health = <<>>
    /\ backups = EmptyBackups
    /\ bot = NotStarted

\* one pass of the loop of execute_updates
ExecuteUpdates ==
    /\ backups.lastrowid < MaxBackups
    /\ \E server_id \in ServerIds, result \in UpdateResults :
          IF Truthy(result.compose_backup_path)
          THEN LET saved == save_backup_info(backups, server_id,
                                result.compose_backup_path.val,
                                result.data_backup_path,
                                OrEmpty(result.old_version))
               IN  \E newest \in NewestIds(saved.rows, server_id, keep_count) :
                      backups' = record_backup(backups, server_id, result, newest)
          ELSE backups' = backups
    /\ UNCHANGED <<versionVars, chan, updateVars, bot, rb, hc, st, health>>

\* a second of the clock passes
Tick ==
    /\ backups.now < MaxClock
    /\ backups' = [backups EXCEPT !.now = @ + 1]
    /\ UNCHANGED <<versionVars, chan, updateVars, bot, rb, hc, st, health>>

NextBackups == ExecuteUpdates \/ Tick

SpecBackups == InitBackups /\ [][NextBackups]_vars

\* C17 (as claimed): once a target has had three or more snapshots recorded,
\* each followed by its retention pass, exactly three rows remain for it and
\* they are the three created last.
C17_KeepsThreeNewest ==
    \A s \in ServerIds :
        LET made == {i \in 1..Len(backups.log) : backups.log[i] = s}
            kept == {r.id : r \in {q \in backups.rows : q.server_id = s}}
        IN  Cardinality(made) >= keep_count =>
               /\ Cardinality(kept) = keep_count
               /\ \A i \in made \ kept, k \in kept : i < k

(***************************************************************************)
(* ssh_executor.py: SSHExecutor.rollback_n8n, one operator for each        *)
(* awaited command.  The run is a record as for update_n8n; backup_id is   *)
(* the row the handler took the paths from, `raised` whether the run went  *)
(* through its except clause.                                              *)
(***************************************************************************)
InitRollback(auth, backup_id, compose, data) ==
    [pc |-> "compose_down", ret |-> 605,
     auth |-> auth, client |-> "none",
     cmds |-> <<>>, rc |-> [c \in RecordedCmds |-> "none"],
     backup_id |-> backup_id, raised |-> FALSE,
     compose_backup_path |-> compose, data_backup_path |-> data,
     details_parts |-> <<>>, result |-> NoneV]

\* a failure result whose details are the output of the failed command
RollbackFailed(w, message) ==
    Return(w, RollbackResult(FALSE, NoneV, message,
                             <<[label |-> "output", text |-> <<>>]>>))

\* the except clause of rollback_n8n
rollback_except(w) ==
    Return([w EXCEPT !.raised = TRUE],
           RollbackResult(FALSE, NoneV, "Rollback failed", w.details_parts))

\* rollback_n8n restoring the configuration although the stop failed
rollback_down_not_fatal(w, o) ==
    [Detail(Issued(w, "compose_down", o), "Containers stopped", <<>>)
        EXCEPT !.pc = "restore_compose"]

rollback_down(w, o) ==
    LET w1 == Issued(w, "compose_down", o)
    IN  IF ~ResultOf(w, o).success
        THEN RollbackFailed(w1, "Failed to stop containers for rollback")
        ELSE [Detail(w1, "Containers stopped", <<>>) EXCEPT !.pc = "restore_compose"]

rollback_restore_compose(w, o) ==
    LET w1 == Issued(w, "restore_compose", o)
    IN  IF ~ResultOf(w, o).success
        THEN RollbackFailed(w1, "Failed to restore docker-compose.yml")
        ELSE [Detail(w1, "docker-compose.yml restored", <<>>) EXCEPT
                 !.pc = IF Truthy(w.data_backup_path)
                        THEN "test_backup" ELSE "compose_pull"]

\* `test -f {data_backup_path}`
rollback_test_backup(w, o) ==
    LET w1 == Issued(w, "test_backup", o)
    IN  IF ResultOf(w, o).success THEN [w1 EXCEPT !.pc = "restore_data"]
        ELSE [Detail(w1, "Data backup file not found, skipping", <<>>)
                 EXCEPT !.pc = "compose_pull"]

\* rollback_n8n giving up when the archive cannot be extracted
rollback_restore_data_fatal(w, o) ==
    LET w1 == Issued(w, "restore_data", o)
    IN  IF ResultOf(w, o).success
        THEN [Detail(w1, "Data restored from backup", <<>>) EXCEPT !.pc = "compose_pull"]
        ELSE RollbackFailed(w1, "Data restore failed")

rollback_restore_data(w, o) ==
    LET w1 == Issued(w, "restore_data", o)
    IN  IF ResultOf(w, o).success
        THEN [Detail(w1, "Data restored from backup", <<>>) EXCEPT !.pc = "compose_pull"]
        ELSE [Detail(w1, "Data restore failed", <<>>) EXCEPT !.pc = "compose_pull"]

rollback_pull(w, o) ==
    LET w1 == Issued(w, "compose_pull", o)
    IN  IF ResultOf(w, o).success
        THEN [Detail(w1, "Image pulled", <<>>) EXCEPT !.pc = "compose_up"]
        ELSE [Detail(w1, "Image pull warning", <<>>) EXCEPT !.pc = "compose_up"]

\* the start command's result, then asyncio.sleep(10)
rollback_up(w, o) ==
    LET w1 == Issued(w, "compose_up", o)
    IN  IF ~ResultOf(w, o).success
        THEN Return(w1, RollbackResult(FALSE, NoneV,
                        "Failed to start containers after rollback",
                        Append(w1.details_parts,
                               [label |-> "output", text |-> <<>>])))
        ELSE [Detail(w1, "Containers started", <<>>) EXCEPT !.pc = "check_running"]

rollback_check_running(w, o) ==
    LET w1 == Issued(w, "check_running", o)
    IN  IF ~ResultOf(w, o).success
        THEN Return(w1, RollbackResult(FALSE, NoneV,
                        "n8n container failed to start after rollback",
                        w1.details_parts))
        ELSE [w1 EXCEPT !.pc = "ps_json"]

\* one step of the run from where it stands
RollbackStep(w, o) ==
    CASE w.pc = "compose_down" -> rollback_down(w, o)
      [] w.pc = "restore_compose" -> rollback_restore_compose(w, o)
      [] w.pc = "test_backup" -> rollback_test_backup(w, o)
      [] w.pc = "restore_data" -> rollback_restore_data(w, o)
      [] w.pc = "compose_pull" -> rollback_pull(w, o)
      [] w.pc = "compose_up" -> rollback_up(w, o)
      [] w.pc = "check_running" -> rollback_check_running(w, o)
      [] w.pc = "ps_json" -> do_ps_json(w, o)
      [] w.pc = "ps_image" -> do_ps_image(w, o)
      [] w.pc = "cli_version" -> do_cli_version(w, o)

RollbackPcs ==
    {"compose_down", "restore_compose", "test_backup", "restore_data",
     "compose_pull", "compose_up", "check_running", "ps_json", "ps_image",
     "cli_version"}

(***************************************************************************)
(* bot/handlers.py: cb_rollback_confirm, the handler that runs the         *)
(* rollback.  Other handlers run between its awaits: execute_updates may   *)
(* record a snapshot, and purge old ones, while the rollback is running.   *)
(***************************************************************************)
MaxConcurrentUpdates == 1

\* storage.get_server(server_id): the target, or None
FoundServers == {NoneV} \cup {Some([auth |-> a]) : a \in AuthConfigs}

\* the handler up to `await executor.rollback_n8n(...)`
cb_rollback_confirm(b, server, backup_id) ==
    LET backup == get_backup(b, backup_id)
    IN  IF IsNone(server) \/ IsNone(backup)
        THEN [NotStarted EXCEPT !.pc = "answered"]
        ELSE InitRollback(server.val.auth, backup_id,
                          Some(backup.val.compose_backup_path),
                          backup.val.data_backup_path)

\* the handler marking the snapshot only after a successful rollback
after_rollback_success_only(b, w) ==
    IF w.pc = "done" /\ w.result.val.success
    THEN mark_backup_used(b, w.backup_id) ELSE b

\* the handler after the await: once rollback_n8n has returned, the
\* snapshot is marked as used
after_rollback(b, w) ==
    IF w.pc = "done" THEN mark_backup_used(b, w.backup_id) ELSE b

\* the table after three updates of target 1, a second or more apart
ThreeBackups ==
    LET path == ComposeBackupPath(Strip(TextDate))
        data == Some(DataBackupPath(Strip(TextDate)))
        r(d) == UpdateResult(FALSE, NoneV, NoneV, "", <<>>, Some(path), d, TRUE)
        later(b) == [b EXCEPT !.now = @ + 1]
        t1 == later(record_backup(EmptyBackups, 1, r(data), {1}))
        t2 == later(record_backup(t1, 1, r(NoneV), {1, 2}))
    IN  later(record_backup(t2, 1, r(data), {1, 2, 3}))

InitRollbackHandler ==
    /\ IdleVersion
    /\ IdleChan
    /\ IdleUpdate
    /\ IdleRuns
    /\ health = <<>>
    /\ backups = ThreeBackups
    /\ bot = NotStarted

\* the administrator presses a rollback button: the handler is not running,
\* it has not run yet or it has run to its end
RollbackConfirm ==
    /\ rb.pc \in {"idle", "answered", "done"}
    /\ \E server \in FoundServers, backup_id \in 1..4 :
          rb' = cb_rollback_confirm(backups, server, backup_id)
    /\ UNCHANGED <<versionVars, chan, updateVars, bot, hc, st, health, backups>>

\* the command the run stands at meets an outcome; the handler goes on
\* when the run returns
RollbackRun ==
    /\ rb.pc \in RollbackPcs
    /\ \E o \in EnvOutcomes(rb.pc) :
          /\ rb' = RollbackStep(rb, o)
          /\ backups' = after_rollback(backups, RollbackStep(rb, o))
    /\ UNCHANGED <<versionVars, chan, updateVars, bot, hc, st, health>>

\* execute_updates records a snapshot while the rollback is under way
UpdateDuringRollback ==
    /\ rb.pc \in RollbackPcs
    /\ backups.lastrowid < 3 + MaxConcurrentUpdates
    /\ \E server_id \in ServerIds, result \in UpdateResults :
          /\ Truthy(result.compose_backup_path)
          /\ LET saved == save_backup_info(backups, server_id,
                                result.compose_backup_path.val,
                                result.data_backup_path,
                                OrEmpty(result.old_version))
             IN  \E newest \in NewestIds(saved.rows, server_id, keep_count) :
                    backups' = record_backup(backups, server_id, result, newest)
    /\ UNCHANGED <<versionVars, chan, updateVars, bot, rb, hc, st, health>>

NextRollback ==
    \/ RollbackConfirm
    \/ RollbackRun
    \/ UpdateDuringRollback

SpecRollback == InitRollbackHandler /\ [][NextRollback]_vars

(***************************************************************************)
(* Claims about the rollback workflow and its handler.                     *)
(***************************************************************************)
\* the place of a command in the order of rollback_n8n
RollbackRank(c) ==
    CASE c = "compose_down" -> 1 [] c = "restore_compose" -> 2
      [] c = "test_backup" -> 3 [] c = "restore_data" -> 4
      [] c = "compose_pull" -> 5 [] c = "compose_up" -> 6
      [] c = "check_running" -> 7 [] c = "ps_json" -> 8
      [] c = "ps_image" -> 9 [] c = "cli_version" -> 10

RollbackStarted == rb.pc \in RollbackPcs \cup {"done"}

\* C18: rollback_n8n returns success == true if and only if the stop,
\* restore-configuration and start commands exit zero and the liveness
\* probe passes; a missing archive, a failed extraction and a failed pull
\* do not end the run: the start command is still issued after them.
C18_RollbackSuccessIffFatalStagesPass ==
    /\ Finished(rb) =>
          (rb.result.val.success <=>
              \A c \in {"compose_down", "restore_compose", "compose_up",
                        "check_running"} : rb.rc[c] = "ok")
    /\ \A c \in {"test_backup", "restore_data", "compose_pull"} :
          (Finished(rb) /\ ~rb.raised /\ rb.rc[c] = "fail") =>
              Issues(rb, "compose_up")

\* C18 witness: a successful rollback whose archive could not be extracted
\* and whose pull failed
C18_Witness ==
    /\ Finished(rb)
    /\ rb.result.val.success
    /\ rb.rc["restore_data"] = "fail"
    /\ rb.rc["compose_pull"] = "fail"

\* C19: in rollback_n8n a failed stop is the last command of the run and a
\* failed configuration restore is the last command of the run; the
\* commands are issued in the order stop, restore config, restore data
\* (test, extract), pull, start, liveness check, none but the data restore
\* left out.
C19_RollbackFatalStageHalts ==
    RollbackStarted =>
       /\ \A c \in {"compose_down", "restore_compose"} :
             rb.rc[c] = "fail" =>
                /\ Finished(rb) /\ ~rb.result.val.success
                /\ rb.cmds[Len(rb.cmds)] = c
                /\ ~Issues(rb, "compose_up")
       /\ rb.rc["compose_down"] = "fail" => ~Issues(rb, "restore_compose")
       /\ rb.rc["restore_compose"] = "fail" =>
             \A c \in {"test_backup", "restore_data", "compose_pull"} :
                ~Issues(rb, c)
       /\ \A i \in 1..Len(rb.cmds), j \in 1..Len(rb.cmds) :
             i < j => RollbackRank(rb.cmds[i]) < RollbackRank(rb.cmds[j])
       /\ Issues(rb, "restore_compose") => Issues(rb, "compose_down")
       /\ Issues(rb, "test_backup") => Issues(rb, "restore_compose")
       /\ Issues(rb, "restore_data") => Issues(rb, "test_backup")
       /\ Issues(rb, "compose_pull") => Issues(rb, "restore_compose")
       /\ Issues(rb, "compose_up") => Issues(rb, "compose_pull")
       /\ Issues(rb, "check_running") => Issues(rb, "compose_up")

\* C19 witness: the configuration restore failed after a successful stop
C19_Witness ==
    /\ Finished(rb)
    /\ rb.rc["compose_down"] = "ok"
    /\ rb.rc["restore_compose"] = "fail"
    /\ rb.cmds = <<"compose_down", "restore_compose">>

\* C20: once a rollback that was run with a snapshot has returned, the row
\* of that snapshot, if the table still holds it, has used = 1, whether the
\* rollback succeeded or failed.
C20_SnapshotConsumed ==
    (RollbackStarted /\ rb.pc = "done") =>
        \A r \in backups.rows : r.id = rb.backup_id => r.used = 1

\* C20 witness: a failed rollback whose snapshot row is marked as used
C20_Witness ==
    /\ Finished(rb)
    /\ ~rb.result.val.success
    /\ \E r \in backups.rows : r.id = rb.backup_id /\ r.used = 1

(***************************************************************************)
(* ssh_executor.py: test_connection, check_n8n_health and                  *)
(* perform_full_health_check.  The run is a record: the executor, the      *)
(* target's URL, the HealthCheckResult being filled in (res), the probes   *)
(* performed (cmds; "url" for the HTTP probe) and, once the handler has    *)
(* stored the result, what update_server_health did (saved).               *)
(***************************************************************************)
HealthCheckResult(is_healthy, ssh_ok, container_running, ui_accessible, version, error) ==
    [is_healthy |-> is_healthy, ssh_ok |-> ssh_ok,
     container_running |-> container_running,
     ui_accessible |-> ui_accessible, version |-> version, error |-> error]

\* what one GET of check_n8n_health may meet
EndpointOutcomes == {"ok", "server_error", "client_error", "timeout"}

\* the paths check_n8n_health asks for, in the order of its list
endpoints == <<"/healthz", "/rest/health", "/">>

\* the loop over the endpoints: a status below 500 ends it with success, a
\* ClientError or a status of 500 and more goes on to the next endpoint, a
\* timeout leaves the loop; `tried` are the paths that were asked for
RECURSIVE TryEndpoints(_, _)
TryEndpoints(outs, i) ==
    IF i > Len(outs)
    THEN [ok |-> FALSE, error |-> Some("All health endpoints failed"),
          tried |-> SubSeq(endpoints, 1, Len(outs))]
    ELSE IF outs[i] = "ok"
    THEN [ok |-> TRUE, error |-> NoneV, tried |-> SubSeq(endpoints, 1, i)]
    ELSE IF outs[i] = "timeout"
    THEN [ok |-> FALSE, error |-> Some("Connection timeout"),
          tried |-> SubSeq(endpoints, 1, i)]
    ELSE TryEndpoints(outs, i + 1)

\* check_n8n_health(url): /healthz, /rest/health, /
check_n8n_health(outs) == TryEndpoints(outs, 1)

UrlOutcomes == [1..3 -> EndpointOutcomes]

\* the URLs a target may be configured with: none, empty, one
ConfiguredUrls == {NoneV, Some(<<>>), Some(<<"h", ":", "/", "/", "n">>)}

\* test_connection: one command, then the finally clause closes the client
test_connection(w, o) ==
    LET r == ResultOf(w, o)
    IN  [run |-> [Issued(w, "echo", o) EXCEPT !.client = close(@)],
         connected |-> r.success,
         message |-> IF r.success
                     THEN [text |-> "Connection successful", stderr |-> ""]
                     ELSE [text |-> "Command failed: ", stderr |-> r.stderr]]

InitHealth(auth, n8n_url, handler) ==
    [pc |-> "echo", ret |-> 789, auth |-> auth, client |-> "none",
     cmds |-> <<>>, rc |-> [c \in RecordedCmds |-> "none"],
     n8n_url |-> n8n_url, handler |-> handler, raised |-> FALSE,
     ssh_error |-> [text |-> "", stderr |-> ""], saved |-> "no",
     res |-> HealthCheckResult(FALSE, FALSE, FALSE, Some(FALSE), NoneV, NoneV),
     result |-> NoneV]

\* the except clause of perform_full_health_check
health_except(w) ==
    LET w1 == [w EXCEPT !.res.error = Some([prefix |-> "", message |-> [text |-> "exception", stderr |-> ""]]),
                        !.raised = TRUE]
    IN  Return(w1, w1.res)

\* the aggregator going on to the liveness probe after a failed shell probe
health_echo_unchecked(w, o) ==
    LET t == test_connection(w, o)
    IN  [t.run EXCEPT !.res.ssh_ok = t.connected, !.ssh_error = t.message,
                      !.pc = "check_running"]

\* the shell-reachability probe
health_echo(w, o) ==
    LET t == test_connection(w, o)
        w1 == [t.run EXCEPT !.res.ssh_ok = t.connected, !.ssh_error = t.message]
    IN  IF ~t.connected
        THEN LET w2 == [w1 EXCEPT !.res.error =
                           Some([prefix |-> "SSH: ", message |-> t.message])]
             IN  Return(w2, w2.res)
        ELSE [w1 EXCEPT !.pc = "check_running"]

\* the aggregator taking the container for running whatever the probe says
health_check_running_unchecked(w, o) ==
    [Issued(w, "check_running", o) EXCEPT
        !.res.container_running = ResultOf(w, o).success, !.pc = "ps_json"]

\* the aggregator probing the container a second time when the first probe
\* found it down
health_check_running_retried(w, o) ==
    LET w1 == [Issued(w, "check_running", o) EXCEPT
                  !.res.container_running = ResultOf(w, o).success]
    IN  IF ~w1.res.container_running /\ ~Issues(w, "check_running") THEN w1
        ELSE IF ~w1.res.container_running
        THEN LET w2 == [w1 EXCEPT !.res.error =
                           Some([prefix |-> "", message |-> [text |-> "n8n container is not running", stderr |-> ""]])]
             IN  Return(w2, w2.res)
        ELSE [w1 EXCEPT !.pc = "ps_json"]

\* the liveness probe
health_check_running(w, o) ==
    LET w1 == [Issued(w, "check_running", o) EXCEPT
                  !.res.container_running = ResultOf(w, o).success]
    IN  IF ~w1.res.container_running
        THEN LET w2 == [w1 EXCEPT !.res.error =
                           Some([prefix |-> "", message |-> [text |-> "n8n container is not running", stderr |-> ""]])]
             IN  Return(w2, w2.res)
        ELSE [w1 EXCEPT !.pc = "ps_json"]

\* the URL probe, for a target with a URL
health_url(w, outs) ==
    LET u == check_n8n_health(outs)
        w1 == [w EXCEPT !.cmds = Append(@, "url"),
                        !.res.ui_accessible = Some(u.ok)]
    IN  IF ~u.ok
        THEN LET w2 == [w1 EXCEPT !.res.error =
                           Some([prefix |-> "UI: ", message |-> [text |-> u.error.val, stderr |-> ""]]),
                                  !.res.is_healthy = FALSE]
             IN  Return(w2, w2.res)
        ELSE LET w2 == [w1 EXCEPT !.res.is_healthy = TRUE]
             IN  Return(w2, w2.res)

\* one step of the SSH part of the run from where it stands
HealthStep(w, o) ==
    CASE w.pc = "echo" -> health_echo(w, o)
      [] w.pc = "check_running" -> health_check_running(w, o)
      [] w.pc = "ps_json" -> do_ps_json(w, o)
      [] w.pc = "ps_image" -> do_ps_image(w, o)
      [] w.pc = "cli_version" -> do_cli_version(w, o)

HealthPcs == {"echo", "check_running", "ps_json", "ps_image", "cli_version", "url"}

(***************************************************************************)
(* storage.py: the server_health table, one row for a target at most, and  *)
(* the handlers that store a HealthCheckResult in it.                      *)
(***************************************************************************)
MaxHealthCalls == 3

EmptyHealth == [s \in ServerIds |-> NoneV]

\* int(x) of a bool
IntOfBool(x) == IF x THEN 1 ELSE 0

\* update_server_health: the table afterwards, and whether the call raised.
\* ui_accessible is a bool or None; int(None) raises TypeError while the
\* parameters of the statement are built, and the transaction is rolled back.
update_server_health(h, server_id, is_healthy, error_message, ssh_ok, container_running, ui_accessible, version) ==
    LET row == h[server_id]
    IN  IF IsNone(ui_accessible) THEN [raised |-> TRUE, health |-> h]
        ELSE IF ~IsNone(row) /\ is_healthy
        THEN [raised |-> FALSE,
              health |-> [h EXCEPT ![server_id] = Some([row.val EXCEPT
                            !.is_healthy = 1,
                            !.ssh_ok = IntOfBool(ssh_ok),
                            !.container_running = IntOfBool(container_running),
                            !.ui_accessible = IntOfBool(ui_accessible.val),
                            !.version = version,
                            !.error_message = NoneV,
                            !.consecutive_failures = 0,
                            !.notified = 0])]]
        ELSE IF ~IsNone(row)
        THEN [raised |-> FALSE,
              health |-> [h EXCEPT ![server_id] = Some([row.val EXCEPT
                            !.is_healthy = 0,
                            !.ssh_ok = IntOfBool(ssh_ok),
                            !.container_running = IntOfBool(container_running),
                            !.ui_accessible = IntOfBool(ui_accessible.val),
                            !.version = version,
                            !.error_message = error_message,
                            !.consecutive_failures = @ + 1])]]
        ELSE [raised |-> FALSE,
              health |-> [h EXCEPT ![server_id] = Some(
                            [is_healthy |-> IntOfBool(is_healthy),
                             ssh_ok |-> IntOfBool(ssh_ok),
                             container_running |-> IntOfBool(container_running),
                             ui_accessible |-> IntOfBool(ui_accessible.val),
                             version |-> version,
                             error_message |-> error_message,
                             consecutive_failures |-> IF is_healthy THEN 0 ELSE 1,
                             notified |-> 0])]]

\* UPDATE server_health SET notified = 1 WHERE server_id = ?
mark_server_notified(h, server_id) ==
    IF IsNone(h[server_id]) THEN h
    ELSE [h EXCEPT ![server_id] = Some([h[server_id].val EXCEPT !.notified = 1])]

\* cb_refresh_all storing a result: every field of the result is passed on
cb_refresh_all(h, server_id, result) ==
    update_server_health(h, server_id, result.is_healthy, result.error,
                         result.ssh_ok, result.container_running,
                         result.ui_accessible, result.version)

\* cb_health_check storing a result: is_healthy and the error are passed on,
\* the other parameters keep their defaults
cb_health_check(h, server_id, result) ==
    update_server_health(h, server_id, result.is_healthy, result.error,
                         FALSE, FALSE, Some(FALSE), NoneV)

Handlers == {"cb_refresh_all", "cb_health_check"}

StoreResult(h, handler, server_id, result) ==
    IF handler = "cb_refresh_all" THEN cb_refresh_all(h, server_id, result)
    ELSE cb_health_check(h, server_id, result)

\* the results perform_full_health_check returns
HealthResults ==
    LET ssh == Some([prefix |-> "SSH: ",
                     message |-> [text |-> "Command failed: ", stderr |-> "command failed"]])
        down == Some([prefix |-> "",
                      message |-> [text |-> "n8n container is not running", stderr |-> ""]])
        ui == Some([prefix |-> "UI: ",
                    message |-> [text |-> "All health endpoints failed", stderr |-> ""]])
    IN  {HealthCheckResult(FALSE, FALSE, FALSE, Some(FALSE), NoneV, ssh),
         HealthCheckResult(FALSE, TRUE, FALSE, Some(FALSE), NoneV, down),
         HealthCheckResult(FALSE, TRUE, TRUE, Some(FALSE), NoneV, ui),
         HealthCheckResult(TRUE, TRUE, TRUE, Some(TRUE), NoneV, NoneV),
         HealthCheckResult(TRUE, TRUE, TRUE, NoneV, NoneV, NoneV)}

(* ---- one health check of target 1 and the handler storing its result -- *)
\* the row of a target that was found unhealthy twice
TwoFailures ==
    LET r == CHOOSE x \in HealthResults : ~x.ssh_ok
        h1 == cb_refresh_all(EmptyHealth, 1, r).health
    IN  cb_refresh_all(h1, 1, r).health

InitHealthCheck ==
    /\ IdleVersion
    /\ IdleChan
    /\ IdleUpdate
    /\ rb = NotStarted
    /\ st = NotStarted
    /\ backups = EmptyBackups
    /\ bot = NotStarted
    /\ health \in {EmptyHealth, TwoFailures}
    /\ \E a \in AuthConfigs, u \in ConfiguredUrls, handler \in Handlers :
          hc = InitHealth(a, u, handler)

\* the command the run stands at meets an outcome
HealthRun ==
    /\ hc.pc \in HealthPcs \ {"url"}
    /\ \E o \in EnvOutcomes(hc.pc) : hc' = HealthStep(hc, o)
    /\ UNCHANGED <<versionVars, chan, updateVars, bot, rb, st, health, backups>>

HealthUrl ==
    /\ hc.pc = "url"
    /\ \E outs \in UrlOutcomes : hc' = health_url(hc, outs)
    /\ UNCHANGED <<versionVars, chan, updateVars, bot, rb, st, health, backups>>

\* the handler stores the result the check returned
HealthStore ==
    /\ hc.pc = "done"
    /\ hc.saved = "no"
    /\ LET u == StoreResult(health, hc.handler, 1, hc.result.val)
       IN  /\ health' = u.health
           /\ hc' = [hc EXCEPT !.saved = IF u.raised THEN "raised" ELSE "stored"]
    /\ UNCHANGED <<versionVars, chan, updateVars, bot, rb, st, backups>>

NextHealthCheck ==
    \/ HealthRun
    \/ HealthUrl
    \/ HealthStore

SpecHealth == InitHealthCheck /\ [][NextHealthCheck]_vars

(* ---- the server_health table under a sequence of stored results; hc     *)
(*      keeps the calls made for each target                         ---- *)
InitHealthTable ==
    /\ IdleVersion
    /\ IdleChan
    /\ IdleUpdate
    /\ rb = NotStarted
    /\ st = NotStarted
    /\ backups = EmptyBackups
    /\ bot = NotStarted
    /\ health = EmptyHealth
    /\ hc = [NotStarted EXCEPT !.pc = "table", !.result = [s \in ServerIds |-> <<>>]]

\* a handler stores the result of a health check of a target
UpdateServerHealth ==
    /\ \E server_id \in ServerIds, result \in HealthResults, handler \in Handlers :
          /\ Len(hc.result[server_id]) < MaxHealthCalls
          /\ LET u == StoreResult(health, handler, server_id, result)
             IN  /\ health' = u.health
                 /\ hc' = [hc EXCEPT !.result[server_id] =
                              Append(@, [is_healthy |-> result.is_healthy,
                                         raised |-> u.raised])]
    /\ UNCHANGED <<versionVars, chan, updateVars, bot, rb, st, backups>>

\* the notifier has told the administrator about a target that failed twice
MarkServerNotified ==
    /\ \E server_id \in ServerIds :
          /\ ~IsNone(health[server_id])
          /\ health[server_id].val.is_healthy = 0
          /\ health[server_id].val.consecutive_failures >= 2
          /\ health[server_id].val.notified = 0
          /\ health' = mark_server_notified(health, server_id)
    /\ UNCHANGED <<versionVars, chan, updateVars, bot, rb, hc, st, backups>>

NextHealthTable == UpdateServerHealth \/ MarkServerNotified

SpecHealthTable == InitHealthTable /\ [][NextHealthTable]_vars

(***************************************************************************)
(* Claims about the health aggregator and the server_health table.         *)
(***************************************************************************)
HealthStarted == hc.pc \in HealthPcs \cup {"done"}

\* C13: in perform_full_health_check, when the shell-reachability probe
\* fails, the run returns at once: neither the liveness probe nor the URL
\* probe is executed, container_running and ui_accessible are False,
\* is_healthy is False and the error is "SSH: " followed by the failure
\* text test_connection reported (the stderr of the failed command, which
\* is empty for an exception without message).
C13_ShellFailureShortCircuits ==
    (HealthStarted /\ hc.rc["echo"] = "fail") =>
        /\ Finished(hc)
        /\ hc.cmds = <<"echo">>
        /\ hc.result.val.ssh_ok = FALSE
        /\ hc.result.val.container_running = FALSE
        /\ hc.result.val.ui_accessible = Some(FALSE)
        /\ hc.result.val.is_healthy = FALSE
        /\ hc.result.val.error =
              Some([prefix |-> "SSH: ",
                    message |-> [text |-> "Command failed: ",
                                 stderr |-> hc.ssh_error.stderr]])

\* C13 witness: the shell probe of a target with a URL failed
C13_Witness ==
    /\ HealthStarted
    /\ Finished(hc)
    /\ hc.rc["echo"] = "fail"
    /\ Truthy(hc.n8n_url)

\* C14 (as claimed): for a target without URL, whatever the shell and
\* liveness probes gave, is_healthy is ssh_ok and container_running and
\* ui_accessible is None (not applicable) in the result returned, and the
\* row stored from that result has the same verdict and a ui_accessible
\* that is not 0 (failed).
C14_NoUrlNotApplicable ==
    (HealthStarted /\ Finished(hc) /\ ~Truthy(hc.n8n_url)) =>
        /\ hc.result.val.is_healthy =
              (hc.result.val.ssh_ok /\ hc.result.val.container_running)
        /\ IsNone(hc.result.val.ui_accessible)
        /\ hc.saved # "no" =>
              /\ hc.saved = "stored"
              /\ health[1].val.is_healthy = IntOfBool(hc.result.val.is_healthy)
              /\ health[1].val.ui_accessible # 0

\* C15: every result perform_full_health_check returns has is_healthy equal
\* to ssh_ok and container_running and (ui_accessible is True or the URL
\* probe is not applicable), not applicable read as ui_accessible being
\* None and, on a run that came to the URL stage, as no URL being configured.
C15_HealthIsConjunction ==
    (HealthStarted /\ Finished(hc)) =>
        LET r == hc.result.val
        IN  /\ r.is_healthy =
                  (/\ r.ssh_ok
                   /\ r.container_running
                   /\ (r.ui_accessible = Some(TRUE) \/ IsNone(r.ui_accessible)))
            /\ (r.ssh_ok /\ r.container_running) =>
                  (r.is_healthy =
                      (r.ui_accessible = Some(TRUE) \/ ~Truthy(hc.n8n_url)))

\* C15 witness: a target without URL found healthy
C15_Witness ==
    /\ HealthStarted
    /\ Finished(hc)
    /\ hc.result.val.is_healthy
    /\ IsNone(hc.result.val.ui_accessible)
    /\ Issues(hc, "check_running")

\* the number of unhealthy results at the end of a sequence of calls
RECURSIVE TrailingFailures(_)
TrailingFailures(calls) ==
    IF calls = <<>> \/ calls[Len(calls)].is_healthy THEN 0
    ELSE 1 + TrailingFailures(SubSeq(calls, 1, Len(calls) - 1))

\* C16 (as claimed): after any sequence of update_server_health calls for a
\* target, consecutive_failures is the number of unhealthy results since
\* the last healthy one, and after a healthy result the notified flag is 0.
C16_ConsecutiveFailures ==
    hc.pc = "table" =>
       \A s \in ServerIds :
          LET calls == hc.result[s]
          IN  calls # <<>> =>
                 /\ ~IsNone(health[s])
                 /\ health[s].val.consecutive_failures = TrailingFailures(calls)
                 /\ calls[Len(calls)].is_healthy => health[s].val.notified = 0

(***************************************************************************)
(* ssh_executor.py: get_server_status.                                     *)
(***************************************************************************)
StatusDict(connected, error, version, running, ui_healthy) ==
    [connected |-> connected, error |-> error, version |-> version,
     running |-> running, ui_healthy |-> ui_healthy]

InitStatus(auth, n8n_url) ==
    [pc |-> "echo", ret |-> 657, auth |-> auth, client |-> "none",
     cmds |-> <<>>, rc |-> [c \in RecordedCmds |-> "none"],
     n8n_url |-> n8n_url, raised |-> FALSE,
     version |-> NoneV, result |-> NoneV]

\* the except clause of get_server_status
status_except(w) ==
    Return([w EXCEPT !.raised = TRUE],
           StatusDict(FALSE, Some([text |-> "exception", stderr |-> ""]),
                      NoneV, FALSE, Some(FALSE)))

status_echo(w, o) ==
    LET t == test_connection(w, o)
    IN  IF ~t.connected
        THEN Return(t.run, StatusDict(FALSE, Some(t.message), NoneV, FALSE,
                                      Some(FALSE)))
        ELSE [t.run EXCEPT !.pc = "ps_json"]

\* check_n8n_running, then the UI check if a URL is configured
status_check_running(w, o) ==
    LET w1 == Issued(w, "check_running", o)
    IN  IF Truthy(w.n8n_url) THEN [w1 EXCEPT !.pc = "url"]
        ELSE Return(w1, StatusDict(TRUE, NoneV, w.version,
                                   ResultOf(w, o).success, NoneV))

status_url(w, outs) ==
    Return([w EXCEPT !.cmds = Append(@, "url")],
           StatusDict(TRUE, NoneV, w.version, w.rc["check_running"] = "ok",
                      Some(check_n8n_health(outs).ok)))

StatusStep(w, o) ==
    CASE w.pc = "echo" -> status_echo(w, o)
      [] w.pc = "ps_json" -> do_ps_json(w, o)
      [] w.pc = "ps_image" -> do_ps_image(w, o)
      [] w.pc = "cli_version" -> do_cli_version(w, o)
      [] w.pc = "check_running" -> status_check_running(w, o)

(***************************************************************************)
(* The four workflows that own an executor, one of them started, with an   *)
(* exception that may be raised at any place inside their try block.       *)
(***************************************************************************)
Jobs == {"update_n8n", "rollback_n8n", "perform_full_health_check", "get_server_status"}

InitFaults ==
    /\ IdleVersion
    /\ IdleChan
    /\ ref = NotStarted
    /\ health = <<>>
    /\ backups = ThreeBackups
    /\ bot = NotStarted
    /\ \E job \in Jobs, a \in AuthConfigs :
          /\ IF job = "update_n8n"
             THEN \E observer \in BOOLEAN : upd = InitRun(a, observer)
             ELSE upd = NotStarted
          /\ IF job = "rollback_n8n"
             THEN \E backup_id \in {1, 2} :
                     rb = cb_rollback_confirm(backups, Some([auth |-> a]), backup_id)
             ELSE rb = NotStarted
          /\ IF job = "perform_full_health_check"
             THEN \E u \in ConfiguredUrls : hc = InitHealth(a, u, "cb_refresh_all")
             ELSE hc = NotStarted
          /\ IF job = "get_server_status"
             THEN \E u \in ConfiguredUrls : st = InitStatus(a, u)
             ELSE st = NotStarted

\* the command the run stands at meets an outcome
StatusRun ==
    /\ st.pc \in HealthPcs \ {"url"}
    /\ \E o \in EnvOutcomes(st.pc) : st' = StatusStep(st, o)
    /\ UNCHANGED <<versionVars, chan, updateVars, bot, rb, hc, health, backups>>

StatusUrl ==
    /\ st.pc = "url"
    /\ \E outs \in UrlOutcomes : st' = status_url(st, outs)
    /\ UNCHANGED <<versionVars, chan, updateVars, bot, rb, hc, health, backups>>

\* an exception reaches the except clause of update_n8n
UpdateRaise ==
    /\ upd.pc \notin {"idle", "done"}
    /\ upd' = update_except(upd)
    /\ UNCHANGED <<versionVars, chan, ref, opsVars>>

\* an exception reaches the except clause of rollback_n8n
RollbackRaise ==
    /\ rb.pc \in RollbackPcs
    /\ rb' = rollback_except(rb)
    /\ backups' = after_rollback(backups, rollback_except(rb))
    /\ UNCHANGED <<versionVars, chan, updateVars, bot, hc, st, health>>

\* an exception reaches the except clause of perform_full_health_check
HealthRaise ==
    /\ hc.pc \in HealthPcs
    /\ hc' = health_except(hc)
    /\ UNCHANGED <<versionVars, chan, updateVars, bot, rb, st, health, backups>>

\* an exception reaches the except clause of get_server_status
StatusRaise ==
    /\ st.pc \in HealthPcs
    /\ st' = status_except(st)
    /\ UNCHANGED <<versionVars, chan, updateVars, bot, rb, hc, health, backups>>

NextFaults ==
    \/ Next
    \/ UpdateRaise
    \/ RollbackRun
    \/ RollbackRaise
    \/ HealthRun
    \/ HealthUrl
    \/ HealthRaise
    \/ StatusRun
    \/ StatusUrl
    \/ StatusRaise

SpecFaults == InitFaults /\ [][NextFaults]_vars

(***************************************************************************)
(* Claims about the exit paths of the workflows.                           *)
(***************************************************************************)
\* the runs that have returned to their caller
Returned == {w \in {upd, rb, hc, st} : w.pc = "done"}

\* C11: when update_n8n, rollback_n8n, perform_full_health_check or
\* get_server_status has returned, by success, by a failed stage or by an
\* exception, its executor holds no connection.
C11_HandleReleased == \A w \in Returned : w.client = "none"

\* C11 witness: a rollback that had a connection open ended by an exception
C11_Witness ==
    /\ Finished(rb)
    /\ rb.raised
    /\ rb.rc["compose_down"] = "ok"
    /\ rb.client = "none"

\* the update run went through its except clause
UpdateRaised == Finished(upd) /\ upd.result.val.message = "Update failed"

\* C12: update_n8n and rollback_n8n end in a result even when an exception
\* is raised at some stage: the result then has success false and the
\* detail lines gathered up to there and, for update, the snapshot paths
\* set up to there.
C12_ExceptionYieldsResult ==
    /\ \A w \in {upd, rb} : w.pc = "done" => ~IsNone(w.result)
    /\ UpdateRaised =>
          /\ ~upd.result.val.success
          /\ upd.result.val.details = upd.details_parts
          /\ upd.result.val.compose_backup_path = upd.compose_backup_path
          /\ upd.result.val.data_backup_path = upd.data_backup_path
          /\ upd.result.val.old_version = upd.old_version
    /\ (Finished(rb) /\ rb.raised) =>
          /\ ~rb.result.val.success
          /\ rb.result.val.details = rb.details_parts

\* C12 witness: an exception in update_n8n after both snapshots were taken
C12_Witness ==
    /\ UpdateRaised
    /\ upd.rc["tar"] = "ok"
    /\ Truthy(upd.result.val.compose_backup_path)
    /\ Truthy(upd.result.val.data_backup_path)
    /\ Len(upd.result.val.details) >= 3

(***************************************************************************)
(* Claims about repeated rollback requests.                                *)
(***************************************************************************)
\* C21 (as claimed): a snapshot that has been marked as used is never used
\* again: no rollback run is under way for a snapshot whose row has used = 1.
\* A run marks its own snapshot only after it has returned, so a run under
\* way for a marked row was started by a later request naming that row.
C21_ConsumedNeverReused ==
    rb.pc \in RollbackPcs =>
        \A r \in backups.rows : r.id = rb.backup_id => r.used = 0

(***************************************************************************)
(* bot/handlers.py: cb_refresh_all.  The handler starts one task of        *)
(* perform_full_health_check for each server and one of                    *)
(* get_latest_version, gathers them with return_exceptions=True and, when  *)
(* all have ended, stores the results in the order of the servers.  bot    *)
(* holds the handler: what each task ended with (None while it runs), and  *)
(* how the handler ended.                                                  *)
(***************************************************************************)
\* storage.get_all_servers()
AllServers == <<1, 2>>

\* what a task of perform_full_health_check hands to gather: the result it
\* returned, or the exception it ended with
TaskOutcomes ==
    {[raised |-> FALSE, val |-> r] : r \in HealthResults}
        \cup {[raised |-> TRUE, val |-> NoneV]}

\* what the task of get_latest_version hands to gather
VersionOutcomes ==
    {[raised |-> FALSE, val |-> NoneV],
     [raised |-> FALSE, val |-> Some(<<"1", ".", "0", ".", "1">>)],
     [raised |-> TRUE, val |-> NoneV]}

\* the handler up to `await asyncio.gather(...)`
refresh_gather ==
    [pc |-> "gather", client |-> "none", result |-> NoneV,
     tasks |-> [s \in ServerIds |-> NoneV], version_task |-> NoneV,
     last_known_version |-> NoneV]

\* one pass of the loop over health_results
refresh_save(h, server_id, outcome) ==
    IF outcome.raised
    THEN update_server_health(h, server_id, FALSE,
             Some([prefix |-> "", message |-> [text |-> "exception", stderr |-> ""]]),
             FALSE, FALSE, Some(FALSE), NoneV)
    ELSE cb_refresh_all(h, server_id, outcome.val)

\* the loop over health_results from position i on: an exception of
\* update_server_health leaves the loop and the handler
RECURSIVE refresh_save_all(_, _, _)
refresh_save_all(h, tasks, i) ==
    IF i > Len(AllServers) THEN [raised |-> FALSE, health |-> h]
    ELSE LET u == refresh_save(h, AllServers[i], tasks[AllServers[i]].val)
         IN  IF u.raised THEN u ELSE refresh_save_all(u.health, tasks, i + 1)

\* the handler after the gather: the results are stored, then the version
\* the registry gave is kept as the last known one
refresh_join(w, h) ==
    LET u == refresh_save_all(h, w.tasks, 1)
        latest_version == IF w.version_task.val.raised THEN NoneV
                          ELSE w.version_task.val.val
    IN  [health |-> u.health,
         bot |-> [w EXCEPT
                    !.pc = "done",
                    !.result = Some(IF u.raised THEN "raised" ELSE "shown"),
                    !.last_known_version =
                        IF ~u.raised /\ Truthy(latest_version)
                        THEN latest_version ELSE @]]

InitRefresh ==
    /\ IdleVersion
    /\ IdleChan
    /\ IdleUpdate
    /\ IdleRuns
    /\ backups = EmptyBackups
    /\ health \in {EmptyHealth, TwoFailures}
    /\ bot = refresh_gather

\* a health check of one server ends
RefreshTaskDone ==
    /\ bot.pc = "gather"
    /\ \E s \in ServerIds, outcome \in TaskOutcomes :
          /\ IsNone(bot.tasks[s])
          /\ bot' = [bot EXCEPT !.tasks[s] = Some(outcome)]
    /\ UNCHANGED <<versionVars, chan, updateVars, rb, hc, st, health, backups>>

\* the registry lookup ends
RefreshVersionDone ==
    /\ bot.pc = "gather"
    /\ IsNone(bot.version_task)
    /\ \E outcome \in VersionOutcomes :
          bot' = [bot EXCEPT !.version_task = Some(outcome)]
    /\ UNCHANGED <<versionVars, chan, updateVars, rb, hc, st, health, backups>>

\* every task has ended: the gather returns and the handler goes on
RefreshJoin ==
    /\ bot.pc = "gather"
    /\ ~IsNone(bot.version_task)
    /\ \A s \in ServerIds : ~IsNone(bot.tasks[s])
    /\ bot' = refresh_join(bot, health).bot
    /\ health' = refresh_join(bot, health).health
    /\ UNCHANGED <<versionVars, chan, updateVars, rb, hc, st, backups>>

NextRefresh ==
    \/ RefreshTaskDone
    \/ RefreshVersionDone
    \/ RefreshJoin

SpecRefresh == InitRefresh /\ [][NextRefresh]_vars

\* C22 (as claimed): once the refresh has ended, whatever the checks of the
\* other servers and the registry lookup ended with, every server has a row
\* in server_health that reflects its own check of this pass: unhealthy for
\* a check that raised, and the is_healthy, ssh_ok and container_running of
\* the result otherwise.
C22_EveryTargetRecorded ==
    bot.pc = "done" =>
        \A s \in ServerIds :
            /\ ~IsNone(health[s])
            /\ LET o == bot.tasks[s].val
                   row == health[s].val
               IN  IF o.raised THEN row.is_healthy = 0
                   ELSE /\ row.is_healthy = IntOfBool(o.val.is_healthy)
                        /\ row.ssh_ok = IntOfBool(o.val.ssh_ok)
                        /\ row.container_running = IntOfBool(o.val.container_running)

(***************************************************************************)
(* bot/handlers.py: execute_updates and cb_rollback_confirm; scheduler.py: *)
(* _execute_scheduled_update.  Handlers and jobs are tasks of one event    *)
(* loop: each runs until its next await, and another may run while it      *)
(* waits for update_n8n or rollback_n8n to return.  bot holds one call of  *)
(* each (handler, job, rollback), the update_history table and the         *)
(* rollback keyboards sent; `by` in a history row or a keyboard names the  *)
(* call that produced it.                                                  *)
(***************************************************************************)
\* the servers a call may be made for: those of server_names, in the order
\* of get_all_servers
Selections == {<<>>, <<1>>, <<2>>, <<1, 2>>}

\* the results update_n8n returns: a successful run has got past stage 3
\* and carries the path of the configuration snapshot
ReturnedResults ==
    {r \in UpdateResults : r.success => Truthy(r.compose_backup_path)}

NoUpdates ==
    [pc |-> "idle", servers |-> <<>>, results |-> <<>>,
     failed_with_rollback |-> <<>>]

\* execute_updates up to its first await inside the loop
execute_updates(servers) ==
    [NoUpdates EXCEPT !.servers = servers,
                      !.pc = IF servers = <<>> THEN "done" ELSE "edit_text"]

\* _execute_scheduled_update up to its first await
execute_scheduled_update(servers) ==
    [NoUpdates EXCEPT !.servers = servers, !.pc = "send_start"]

\* the server the loop stands at
server_of(f) == f.servers[Len(f.results) + 1]

\* the end of a pass of the loop that stops the run at a failed update
next_pass_stops_at_failure(f, pass, last) ==
    [f EXCEPT !.pc = IF /\ Len(f.results) < Len(f.servers)
                        /\ \A k \in 1..Len(f.results) : f.results[k].result.success
                     THEN pass ELSE last]

\* the end of a pass of the loop: the next server, or the code after the loop
next_pass(f, pass, last) ==
    [f EXCEPT !.pc = IF Len(f.results) < Len(f.servers) THEN pass ELSE last]

\* INSERT INTO update_history
add_update_history(history, server_id, result, by) ==
    Append(history, [server_id |-> server_id, success |-> result.success,
                     by |-> by])

\* execute_updates from the return of update_n8n to the end of the pass:
\* the table of snapshots, the rollback candidates, the history; backup_id
\* is the lastrowid of the insert, 0 standing for None
handler_pass(f, b, history, result, newest) ==
    LET server_id == server_of(f)
        saved == Truthy(result.compose_backup_path)
        b1 == IF saved THEN record_backup(b, server_id, result, newest) ELSE b
        backup_id == IF saved THEN b1.lastrowid ELSE 0
        f1 == [f EXCEPT
                 !.results = Append(@, [server_id |-> server_id, result |-> result]),
                 !.failed_with_rollback =
                     IF ~result.success /\ result.can_rollback /\ backup_id # 0
                     THEN Append(@, [server_id |-> server_id,
                                     backup_id |-> backup_id])
                     ELSE @]
    IN  [flow |-> next_pass(f1, "edit_text", "report"), backups |-> b1,
         history |-> add_update_history(history, server_id, result, "handler")]

\* _execute_scheduled_update from the return of update_n8n to the end of
\* the pass: the history
job_pass(f, history, result) ==
    LET server_id == server_of(f)
        f1 == [f EXCEPT
                 !.results = Append(@, [server_id |-> server_id, result |-> result])]
    IN  [flow |-> next_pass(f1, "update_n8n", "send_results"),
         history |-> add_update_history(history, server_id, result, "job")]

\* the rollback keyboards execute_updates sends after its report
rollback_keyboards(f) ==
    {[server_id |-> f.failed_with_rollback[k].server_id,
      backup_id |-> f.failed_with_rollback[k].backup_id, by |-> "handler"] :
        k \in 1..Len(f.failed_with_rollback)}

IdleCallers ==
    [pc |-> "callers", client |-> "none", result |-> NoneV,
     handler |-> NoUpdates, job |-> NoUpdates,
     rollback |-> [pc |-> "idle", server_id |-> 0, backup_id |-> 0],
     history |-> <<>>, keyboards |-> {}]

InitCallers ==
    /\ IdleVersion
    /\ IdleChan
    /\ IdleUpdate
    /\ IdleRuns
    /\ health = <<>>
    /\ backups = EmptyBackups
    /\ bot = IdleCallers

\* the administrator starts an update now
HandlerStart ==
    /\ bot.handler.pc = "idle"
    /\ \E servers \in Selections :
          bot' = [bot EXCEPT !.handler = execute_updates(servers)]
    /\ UNCHANGED <<versionVars, chan, updateVars, rb, hc, st, health, backups>>

\* the progress message was sent: update_n8n is called for the server
HandlerEditText ==
    /\ bot.handler.pc = "edit_text"
    /\ bot' = [bot EXCEPT !.handler.pc = "update_n8n"]
    /\ UNCHANGED <<versionVars, chan, updateVars, rb, hc, st, health, backups>>

\* update_n8n returns to execute_updates
HandlerUpdateReturns ==
    /\ bot.handler.pc = "update_n8n"
    /\ \E result \in ReturnedResults :
          LET saved == IF Truthy(result.compose_backup_path)
                       THEN save_backup_info(backups, server_of(bot.handler),
                                result.compose_backup_path.val,
                                result.data_backup_path,
                                OrEmpty(result.old_version))
                       ELSE backups
          IN  \E newest \in NewestIds(saved.rows, server_of(bot.handler), keep_count) :
                 LET p == handler_pass(bot.handler, backups, bot.history,
                                       result, newest)
                 IN  /\ bot' = [bot EXCEPT !.handler = p.flow,
                                           !.history = p.history]
                     /\ backups' = p.backups
    /\ UNCHANGED <<versionVars, chan, updateVars, rb, hc, st, health>>

\* the report was sent, and a rollback keyboard for each candidate
HandlerReport ==
    /\ bot.handler.pc = "report"
    /\ bot' = [bot EXCEPT !.handler.pc = "done",
                          !.keyboards = @ \cup rollback_keyboards(bot.handler)]
    /\ UNCHANGED <<versionVars, chan, updateVars, rb, hc, st, health, backups>>

\* the time of a scheduled update has come
JobStart ==
    /\ bot.job.pc = "idle"
    /\ \E servers \in Selections :
          bot' = [bot EXCEPT !.job = execute_scheduled_update(servers)]
    /\ UNCHANGED <<versionVars, chan, updateVars, rb, hc, st, health, backups>>

\* the start notification was sent, or failed: the loop begins
JobSendStart ==
    /\ bot.job.pc = "send_start"
    /\ bot' = [bot EXCEPT !.job = next_pass(@, "update_n8n", "send_results")]
    /\ UNCHANGED <<versionVars, chan, updateVars, rb, hc, st, health, backups>>

\* update_n8n returns to _execute_scheduled_update
JobUpdateReturns ==
    /\ bot.job.pc = "update_n8n"
    /\ \E result \in ReturnedResults :
          LET p == job_pass(bot.job, bot.history, result)
          IN  bot' = [bot EXCEPT !.job = p.flow, !.history = p.history]
    /\ UNCHANGED <<versionVars, chan, updateVars, rb, hc, st, health, backups>>

\* _send_update_results: the report, without keyboards
JobSendResults ==
    /\ bot.job.pc = "send_results"
    /\ bot' = [bot EXCEPT !.job.pc = "done"]
    /\ UNCHANGED <<versionVars, chan, updateVars, rb, hc, st, health, backups>>

\* the administrator presses the button of a rollback keyboard:
\* cb_rollback_confirm up to `await executor.rollback_n8n(...)`
RollbackPressed ==
    /\ bot.rollback.pc = "idle"
    /\ \E k \in bot.keyboards :
          /\ ~IsNone(get_backup(backups, k.backup_id))
          /\ bot' = [bot EXCEPT !.rollback =
                        [pc |-> "rollback_n8n", server_id |-> k.server_id,
                         backup_id |-> k.backup_id]]
    /\ UNCHANGED <<versionVars, chan, updateVars, rb, hc, st, health, backups>>

\* rollback_n8n returns to cb_rollback_confirm
RollbackReturns ==
    /\ bot.rollback.pc = "rollback_n8n"
    /\ bot' = [bot EXCEPT !.rollback.pc = "done"]
    /\ backups' = mark_backup_used(backups, bot.rollback.backup_id)
    /\ UNCHANGED <<versionVars, chan, updateVars, rb, hc, st, health>>

NextCallers ==
    \/ HandlerStart
    \/ HandlerEditText
    \/ HandlerUpdateReturns
    \/ HandlerReport
    \/ JobStart
    \/ JobSendStart
    \/ JobUpdateReturns
    \/ JobSendResults
    \/ RollbackPressed
    \/ RollbackReturns

SpecCallers == InitCallers /\ [][NextCallers]_vars

(***************************************************************************)
(* Claims about the callers of the workflows.                              *)
(***************************************************************************)
\* the rows of update_history a call wrote for a server
HistoryOf(by, server_id) ==
    {k \in 1..Len(bot.history) :
        bot.history[k].by = by /\ bot.history[k].server_id = server_id}

\* a call and its name
Calls == {<<bot.handler, "handler">>, <<bot.job, "job">>}

\* C23: in a run over several servers, whether started by the handler or by
\* the scheduled job, the servers are taken one after the other whatever
\* the results of the earlier ones: the run has a result for exactly the
\* servers before the one it stands at, and when it has ended each selected
\* server has exactly one result and exactly one history row of that run.
C23_TargetsIndependent ==
    \A c \in Calls :
        LET f == c[1]
        IN  /\ Len(f.results) <= Len(f.servers)
            /\ \A k \in 1..Len(f.results) : f.results[k].server_id = f.servers[k]
            /\ f.pc \in {"done", "report", "send_results"} =>
                  Len(f.results) = Len(f.servers)
            /\ \A k \in 1..Len(f.servers) :
                  Cardinality(HistoryOf(c[2], f.servers[k])) =
                      IF k <= Len(f.results) THEN 1 ELSE 0

\* C23 witness: a run of the handler over two servers has ended; the update
\* of the first failed, the second was updated
C23_Witness ==
    /\ bot.handler.pc = "done"
    /\ Len(bot.handler.results) = 2
    /\ ~bot.handler.results[1].result.success
    /\ bot.handler.results[2].result.success
    /\ Cardinality(HistoryOf("handler", 2)) = 1

\* C27 (as claimed): when a run of updates has ended, a rollback keyboard
\* has been sent for a server of the run if and only if the result for that
\* server is a failure that carries a configuration snapshot; this holds for
\* a run of the handler and for a run of the scheduled job.
C27_RollbackOfferedIff ==
    \A c \in Calls :
        LET f == c[1]
        IN  f.pc = "done" =>
               \A k \in 1..Len(f.results) :
                  (\E kb \in bot.keyboards :
                      kb.by = c[2] /\ kb.server_id = f.results[k].server_id)
                  <=> (/\ ~f.results[k].result.success
                       /\ Truthy(f.results[k].result.compose_backup_path))

\* the server a call is running a workflow against, 0 if none
RunningAgainst(f) ==
    IF f.pc = "update_n8n" THEN server_of(f)
    ELSE IF f.pc = "rollback_n8n" THEN f.server_id
    ELSE 0

\* C28 (as claimed): at no time are two update or rollback workflows, of
\* the handler, the scheduled job and the rollback handler, running against
\* the same server.
C28_SerializedPerTarget ==
    \A s \in ServerIds :
        Cardinality({c \in {"handler", "job", "rollback"} :
                        RunningAgainst(bot[c]) = s}) <= 1

(***************************************************************************)
(* version_checker.py: get_latest_version.  The registry's answer is a     *)
(* transport failure, a status other than 200, a body that is not the      *)
(* expected JSON, or a list of tags; a tag is its name, its digest ("" for *)
(* a missing one) and its last_updated (None, or a timestamp: timestamps   *)
(* of one format are ordered as texts as they are in time, here 1 < 2).    *)
(***************************************************************************)
MaxTags == 3

TagNames ==
    {<<"l", "a", "t", "e", "s", "t">>, Render(1, 9, 0), Render(1, 10, 0),
     Render(1, 9, 0) \o <<"-", "r", "c">>}

Digests == {"", "a", "b"}

Timestamps == {NoneV, Some(1), Some(2)}

TagInfos == [name : TagNames, digest : Digests, last_updated : Timestamps]

\* the tag lists of at most MaxTags entries, a name listed once
TagLists ==
    UNION {{l \in [1..n -> TagInfos] :
               \A i \in 1..n, j \in 1..n : l[i].name = l[j].name => i = j} :
           n \in 0..MaxTags}

Responses ==
    {[kind |-> k, results |-> <<>>] : k \in {"client_error", "status", "json_error"}}
        \cup {[kind |-> "ok", results |-> l] : l \in TagLists}

\* from_tag(tag, digest=..., last_updated=...)
tag_version(tag_info) ==
    LET v == from_tag(tag_info.name)
    IN  IF IsNone(v) THEN NoneV
        ELSE [tag |-> "VersionInfo", version |-> v.version, major |-> v.major,
              minor |-> v.minor, patch |-> v.patch,
              digest |-> tag_info.digest,
              last_updated |-> tag_info.last_updated]

\* versions_by_digest[digest] = version: a dict keeps the place of a key it
\* already holds
dict_set(d, version) ==
    IF \E i \in 1..Len(d) : d[i].digest = version.digest
    THEN [i \in 1..Len(d) |->
             IF d[i].digest = version.digest THEN version ELSE d[i]]
    ELSE Append(d, version)

\* the loop over data["results"]: the digest of 'latest' and the dict of
\* the versions, from position i on
RECURSIVE collect_tags(_, _, _, _)
collect_tags(results, i, latest_digest, d) ==
    IF i > Len(results) THEN [latest_digest |-> latest_digest, versions |-> d]
    ELSE LET t == results[i]
             v == tag_version(t)
         IN  collect_tags(results, i + 1,
                 IF t.name = <<"l", "a", "t", "e", "s", "t">>
                 THEN Some(t.digest) ELSE latest_digest,
                 IF ~IsNone(v) /\ t.digest # "" THEN dict_set(d, v) ELSE d)

\* `v.last_updated or ""` as a sort key
updated_key(v) == IF IsNone(v.last_updated) THEN 0 ELSE v.last_updated.val

\* all_versions.sort(key=..., reverse=True)[0]: the first of the versions
\* with the greatest key (the sort is stable)
most_recent(d) ==
    LET first == CHOOSE i \in 1..Len(d) :
                    /\ \A j \in 1..Len(d) : updated_key(d[j]) <= updated_key(d[i])
                    /\ \A j \in 1..(i - 1) : updated_key(d[j]) < updated_key(d[i])
    IN  d[first]

\* get_latest_version never looking for the digest of 'latest'
latest_by_timestamp_only(c) ==
    IF c.versions # <<>> THEN Some(most_recent(c.versions)) ELSE NoneV

\* get_latest_version after the loop: the version with the digest of
\* 'latest', else the most recently updated one, else None
latest_of(c) ==
    IF /\ ~IsNone(c.latest_digest) /\ c.latest_digest.val # ""
       /\ \E i \in 1..Len(c.versions) : c.versions[i].digest = c.latest_digest.val
    THEN Some(c.versions[CHOOSE i \in 1..Len(c.versions) :
                            c.versions[i].digest = c.latest_digest.val])
    ELSE IF c.versions # <<>> THEN Some(most_recent(c.versions))
    ELSE NoneV

\* get_latest_version: what it returns for an answer of the registry;
\* every exception is caught and None returned
get_latest_version(response) ==
    IF response.kind # "ok" THEN NoneV
    ELSE latest_of(collect_tags(response.results, 1, NoneV, <<>>))

InitRegistry ==
    /\ IdleVersion
    /\ IdleChan
    /\ IdleUpdate
    /\ IdleRuns
    /\ health = <<>>
    /\ backups = EmptyBackups
    /\ \E response \in Responses :
          bot = [pc |-> "get", client |-> "none", result |-> NoneV,
                 response |-> response]

\* the call returns
GetLatestVersion ==
    /\ bot.pc = "get"
    /\ bot' = [bot EXCEPT !.pc = "done",
                          !.result = Some(get_latest_version(bot.response))]
    /\ UNCHANGED <<versionVars, chan, updateVars, rb, hc, st, health, backups>>

SpecRegistry == InitRegistry /\ [][GetLatestVersion]_vars

(***************************************************************************)
(* Claims about get_latest_version.                                        *)
(***************************************************************************)
\* the tags of the answer that are MAJOR.MINOR.PATCH
SemverTags ==
    {bot.response.results[i] : i \in
        {k \in 1..Len(bot.response.results) :
            ~IsNone(SemverGroups(bot.response.results[k].name))}}

\* the tag named latest, if listed
LatestTags ==
    {bot.response.results[i] : i \in
        {k \in 1..Len(bot.response.results) :
            bot.response.results[k].name = <<"l", "a", "t", "e", "s", "t">>}}

\* a semver tag carries the digest of 'latest'
DigestShared ==
    \E l \in LatestTags, t \in SemverTags : l.digest # "" /\ t.digest = l.digest

Got == bot.pc = "done" /\ bot.response.kind = "ok"

\* the returned version is one of the listed tags
ReturnedTag(t) ==
    /\ ~IsNone(bot.result.val)
    /\ bot.result.val.val.version = t.name
    /\ bot.result.val.val.digest = t.digest
    /\ bot.result.val.val.last_updated = t.last_updated

\* C24: when the list holds 'latest' with a digest and a MAJOR.MINOR.PATCH
\* tag with that digest, get_latest_version returns a MAJOR.MINOR.PATCH tag
\* of the list whose digest is the digest of 'latest'; whatever the list, a
\* returned version is a MAJOR.MINOR.PATCH tag of the list.
C24_LatestByDigest ==
    Got =>
       /\ DigestShared =>
             \E l \in LatestTags, t \in SemverTags :
                t.digest = l.digest /\ ReturnedTag(t)
       /\ ~IsNone(bot.result.val) => \E t \in SemverTags : ReturnedTag(t)

\* C24 witness: 'latest' shares its digest with the older of two versions,
\* the other one being the more recently updated, and the older is returned
C24_Witness ==
    /\ Got
    /\ DigestShared
    /\ \E t \in SemverTags, u \in SemverTags :
          /\ ReturnedTag(t)
          /\ u.digest # t.digest /\ u.digest # ""
          /\ updated_key(u) > updated_key(t)

\* C25 (as claimed): when no MAJOR.MINOR.PATCH tag shares the digest of
\* 'latest', or 'latest' is not listed, get_latest_version returns the
\* MAJOR.MINOR.PATCH tag of the list with the most recent last_updated.
C25_FallbackMostRecent ==
    (Got /\ ~DigestShared /\ SemverTags # {}) =>
        \E t \in SemverTags :
            /\ ReturnedTag(t)
            /\ \A u \in SemverTags : updated_key(u) <= updated_key(t)

\* C26 (as claimed): get_latest_version returns None exactly when the
\* registry did not answer with a list or the list holds no
\* MAJOR.MINOR.PATCH tag.
C26_NoneIffNoSemverTag ==
    bot.pc = "done" =>
        (IsNone(bot.result.val) <=>
            (bot.response.kind # "ok" \/ SemverTags = {}))

(***************************************************************************)
(* ssh_executor.py: one call of check_n8n_health.  bot holds what each of  *)
(* the three paths would answer (outs) and what the call returned.         *)
(***************************************************************************)
InitProbe ==
    /\ IdleVersion
    /\ IdleChan
    /\ IdleUpdate
    /\ IdleRuns
    /\ health = <<>>
    /\ backups = EmptyBackups
    /\ \E outs \in UrlOutcomes :
          bot = [pc |-> "probe", client |-> "none", result |-> NoneV,
                 outs |-> outs]

\* the call returns
CheckHealth ==
    /\ bot.pc = "probe"
    /\ bot' = [bot EXCEPT !.pc = "done",
                          !.result = Some(check_n8n_health(bot.outs))]
    /\ UNCHANGED <<versionVars, chan, updateVars, rb, hc, st, health, backups>>

SpecProbe == InitProbe /\ [][CheckHealth]_vars

\* C29 (as claimed): check_n8n_health asks for /healthz, /rest/health and /
\* in that order and succeeds if and only if one of them answers with a
\* status below 500; a path is asked for whenever no earlier path answered
\* with such a status, be it that the earlier ones answered with a server
\* error, failed to connect or timed out.
C29_AnyPathSucceeds ==
    bot.pc = "done" =>
        LET r == bot.result.val
        IN  /\ r.tried = SubSeq(endpoints, 1, Len(r.tried))
            /\ r.ok <=> \E i \in 1..3 : bot.outs[i] = "ok"
            /\ \A i \in 1..3 :
                  (\A j \in 1..(i - 1) : bot.outs[j] # "ok") => Len(r.tried) >= i

(***************************************************************************)
(* Claims about the probes of one health check.                            *)
(***************************************************************************)
\* how often a probe was executed in the run
TimesProbed(w, c) == Cardinality({i \in 1..Len(w.cmds) : w.cmds[i] = c})

\* C30: in perform_full_health_check, when the shell probe passes and the
\* liveness probe fails, the run returns at once: the URL probe is not
\* executed, the result is unhealthy with the error "n8n container is not
\* running", ssh_ok is True and container_running False; and in every run
\* each of the three probes is executed once at most.
C30_LivenessFailureStops ==
    HealthStarted =>
       /\ (hc.rc["echo"] = "ok" /\ hc.rc["check_running"] = "fail") =>
             /\ Finished(hc)
             /\ hc.cmds = <<"echo", "check_running">>
             /\ hc.result.val.is_healthy = FALSE
             /\ hc.result.val.ssh_ok = TRUE
             /\ hc.result.val.container_running = FALSE
             /\ hc.result.val.error =
                   Some([prefix |-> "",
                         message |-> [text |-> "n8n container is not running",
                                      stderr |-> ""]])
       /\ \A c \in {"echo", "check_running", "url"} : TimesProbed(hc, c) <= 1

\* C30 witness: the container of a server with a configured URL is down
C30_Witness ==
    /\ Finished(hc)
    /\ hc.rc["echo"] = "ok"
    /\ hc.rc["check_running"] = "fail"
    /\ Truthy(hc.n8n_url)
    /\ TimesProbed(hc, "url") = 0

(***************************************************************************)
(* ssh_executor.py: get_current_version as get_server_status calls it,     *)
(* with a record of what its commands met: bot.seen holds, for each of the *)
(* three version commands issued, the CommandResult execute returned.      *)
(***************************************************************************)
InitResolver ==
    /\ IdleVersion
    /\ IdleChan
    /\ IdleUpdate
    /\ rb = NotStarted
    /\ hc = NotStarted
    /\ health = <<>>
    /\ backups = EmptyBackups
    /\ bot = [pc |-> "seen", client |-> "none", result |-> NoneV, seen |-> <<>>]
    /\ \E a \in AuthConfigs, u \in ConfiguredUrls : st = InitStatus(a, u)

\* the command the run stands at meets an outcome
ResolverRun ==
    /\ st.pc \in HealthPcs \ {"url"}
    /\ \E o \in EnvOutcomes(st.pc) :
          /\ st' = StatusStep(st, o)
          /\ bot' = IF st.pc \in GcvCmds
                    THEN [bot EXCEPT !.seen =
                            Append(@, [cmd |-> st.pc, result |-> ResultOf(st, o)])]
                    ELSE bot
    /\ UNCHANGED <<versionVars, chan, updateVars, rb, hc, health, backups>>

ResolverUrl ==
    /\ st.pc = "url"
    /\ \E outs \in UrlOutcomes : st' = status_url(st, outs)
    /\ UNCHANGED <<versionVars, chan, updateVars, bot, rb, hc, health, backups>>

SpecResolver == InitResolver /\ [][ResolverRun \/ ResolverUrl]_vars

(***************************************************************************)
(* Claims about get_current_version.                                       *)
(***************************************************************************)
\* the text between position i and the next double quote
RECURSIVE UpToQuote(_, _)
UpToQuote(s, i) ==
    IF i > Len(s) \/ s[i] = "\"" THEN <<>>
    ELSE <<s[i]>> \o UpToQuote(s, i + 1)

\* the image a container listing names: the Image field ("I") of a JSON
\* listing, the first line of a plain one
ListedImage(stdout) ==
    LET key == <<"\"", "I", "\"", ":", "\"">>
        at == {i \in 1..Len(stdout) :
                  i + 4 <= Len(stdout) /\ SubSeq(stdout, i, i + 4) = key}
    IN  IF at # {} THEN UpToQuote(stdout, 5 + CHOOSE i \in at : \A j \in at : i <= j)
        ELSE IF Strip(stdout) = <<>> THEN <<>>
        ELSE Split(Strip(stdout), "\n")[1]

\* the results of the version commands the run has met
SeenOf(cmd) == {bot.seen[i].result : i \in {k \in 1..Len(bot.seen) : bot.seen[k].cmd = cmd}}

\* the listing get_current_version goes by: the second if the first failed
Listings == IF SeenOf("ps_image") # {} THEN SeenOf("ps_image") ELSE SeenOf("ps_json")

\* the MAJOR.MINOR.PATCH tags of the image the listing names
ListedTags ==
    {SplitLast(ListedImage(r.stdout), ":") : r \in
        {x \in Listings : /\ x.success
                          /\ Contains(ListedImage(x.stdout), ":")
                          /\ ~IsNone(from_tag(SplitLast(ListedImage(x.stdout), ":")))}}

Resolved == st.pc \in {"check_running", "url"} \/ (st.pc = "done" /\ st.rc["echo"] = "ok")

\* C31 (as claimed): when get_current_version has returned: if the tag of
\* the image the container listing names is MAJOR.MINOR.PATCH, that tag is
\* returned and the version command was not invoked; otherwise the version
\* command was invoked and the first MAJOR.MINOR.PATCH in its output is
\* returned, None if it failed or printed none.
C31_ImageTagFirst ==
    Resolved =>
        IF ListedTags # {}
        THEN /\ \E t \in ListedTags : st.version = Some(t)
             /\ SeenOf("cli_version") = {}
        ELSE \E r \in SeenOf("cli_version") : st.version = CliVersion(r)

(***************************************************************************)
(* update_n8n, stages 2 to 8: what the run issues around the snapshots,    *)
(* the direct pull and the liveness probe                                  *)
(***************************************************************************)
\* the commands of a run that change the server: the two rewrites of
\* docker-compose.yml, the pulls, the stop and the start
MutatingCmds ==
    {"sed_registry", "sed_hub", "docker_pull", "compose_pull",
     "compose_down", "compose_up"}

\* C32 (as claimed): when the liveness probe of stage 8 fails, the run still
\* issues the version commands after the probe and the failed result carries
\* the version they resolve.
C32_FailedProbeStillResolves ==
    (Finished(upd) /\ upd.rc["check_running"] = "fail") =>
        /\ \E i \in 1..Len(upd.cmds) :
              upd.cmds[i] \in GcvCmds /\ StageOfCmdAt(upd.cmds, i) = 8
        /\ upd.cmds[Len(upd.cmds)] # "check_running"

\* C33: in every run the data-archive command and the configuration copy are
\* issued before any mutating command: no rewrite, pull, stop or start is
\* issued before the copy of docker-compose.yml has been executed, and the
\* archive command, when the run issues one, precedes them all.
C33_SnapshotsBeforeMutation ==
    \A i \in 1..Len(upd.cmds) :
        upd.cmds[i] \in MutatingCmds =>
            /\ \E j \in 1..(i - 1) : upd.cmds[j] = "cp_compose"
            /\ \A j \in 1..Len(upd.cmds) :
                  upd.cmds[j] \in {"tar", "cp_compose"} => j < i

\* C33 witness: a run that archived the data, copied the configuration and
\* went on to restart the containers
C33_Witness ==
    /\ Finished(upd)
    /\ Issues(upd, "tar")
    /\ upd.rc["cp_compose"] = "ok"
    /\ Issues(upd, "sed_registry")
    /\ Issues(upd, "compose_up")

\* C34 (as claimed): when the direct pull of n8nio/n8n:latest exits non-zero
\* the run ends there with a failed result and neither the stop nor the
\* start command is issued.
C34_DirectPullFatal ==
    upd.rc["docker_pull"] = "fail" =>
        /\ Finished(upd) => ~upd.result.val.success
        /\ upd.cmds[Len(upd.cmds)] = "docker_pull"
        /\ ~Issues(upd, "compose_down")
        /\ ~Issues(upd, "compose_up")

(***************************************************************************)
(* Claims about what the callers record: update_history and backups.       *)
(***************************************************************************)
\* the results of a call that carry a configuration snapshot
WithSnapshot(f) ==
    {k \in 1..Len(f.results) : Truthy(f.results[k].result.compose_backup_path)}

\* C35 (as claimed): the history is append-only and has exactly one row for
\* every completed update, whoever started it, and for every completed
\* rollback.
C35_OneEntryPerCompletedRun ==
    Len(bot.history) =
        Len(bot.handler.results) + Len(bot.job.results)
        + (IF bot.rollback.pc = "done" THEN 1 ELSE 0)

\* C36 (as claimed): whichever caller started the update, every run that
\* returned with a configuration snapshot has had a row inserted into the
\* backups table for it.
C36_SnapshotAlwaysRecorded ==
    Len(backups.log) =
        Cardinality(WithSnapshot(bot.handler)) + Cardinality(WithSnapshot(bot.job))

(***************************************************************************)
(* storage.py: the backups table under calls of save_backup_info and of    *)
(* delete_old_backups with any keep_count, in any order.                   *)
(***************************************************************************)
MaxRows == 3

MaxKeep == 3

\* save_backup_info(server_id, ...)
SaveBackupInfo ==
    /\ backups.lastrowid < MaxRows
    /\ \E server_id \in ServerIds, d \in {NoneV, Some(DataBackupPath(Strip(TextDate)))} :
          backups' = save_backup_info(backups, server_id,
                                      ComposeBackupPath(Strip(TextDate)), d, <<>>)
    /\ UNCHANGED <<versionVars, chan, updateVars, bot, rb, hc, st, health>>

\* delete_old_backups(server_id, keep_count)
DeleteOldBackups ==
    /\ \E server_id \in ServerIds, keep \in 0..MaxKeep :
          \E newest \in NewestIds(backups.rows, server_id, keep) :
             backups' = delete_old_backups(backups, server_id, newest)
    /\ UNCHANGED <<versionVars, chan, updateVars, bot, rb, hc, st, health>>

NextRetention == SaveBackupInfo \/ DeleteOldBackups \/ Tick

SpecRetention == InitBackups /\ [][NextRetention]_vars

RowsOf(b, server_id) == {r \in b.rows : r.server_id = server_id}

\* C37: the retention pass is scoped per target: whatever the table holds
\* and whatever the keep-count, delete_old_backups for one target leaves
\* the rows of every other target as they were.
C37_PruningScopedPerTarget ==
    \A s \in ServerIds, keep \in 0..MaxKeep :
        \A newest \in NewestIds(backups.rows, s, keep) :
            \A t \in ServerIds \ {s} :
                RowsOf(delete_old_backups(backups, s, newest), t) = RowsOf(backups, t)

\* C37 witness: the first row of the table belongs to one target and is
\* still there with a second row of that target, after the retention pass
\* of the other target has deleted rows
C37_Witness ==
    \E s \in ServerIds, t \in ServerIds :
        /\ s # t
        /\ Cardinality({i \in 1..Len(backups.log) : backups.log[i] = s})
              > Cardinality(RowsOf(backups, s))
        /\ backups.log[1] = t
        /\ \E r \in RowsOf(backups, t) : r.id = 1
        /\ Cardinality(RowsOf(backups, t)) = 2

(***************************************************************************)
(* Claims about the rows of server_health and the notifier's query.        *)
(***************************************************************************)
\* C38 (as claimed): in every row of server_health, whichever handler
\* stored it, is_healthy = 1 implies ssh_ok = 1 and container_running = 1.
C38_HealthyImpliesProbesOk ==
    \A s \in ServerIds :
        (~IsNone(health[s]) /\ health[s].val.is_healthy = 1) =>
            /\ health[s].val.ssh_ok = 1
            /\ health[s].val.container_running = 1


(* ---- the notifier's side of server_health: results stored, targets     *)
(*      marked notified and the query for targets to alert about, in any   *)
(*      order.  bot keeps, for each target, what the calls so far amount   *)
(*      to: `phase` is "marked" from a mark_server_notified call to the    *)
(*      next healthy result stored and "healed" from then on, `failures`   *)
(*      the unhealthy results stored since the last healthy one; `result`  *)
(*      is what the query returned, if it was the last call           ---- *)
min_failures == 2

MaxAlertCalls == 6

\* the query keeping targets that were already notified about
unhealthy_servers_notified_or_not(h, threshold) ==
    {s \in ServerIds :
        /\ ~IsNone(h[s])
        /\ h[s].val.is_healthy = 0
        /\ h[s].val.consecutive_failures >= threshold}

\* SELECT * FROM server_health WHERE is_healthy = 0
\* AND consecutive_failures >= ? AND notified = 0
get_unhealthy_servers_for_notification(h, threshold) ==
    {s \in ServerIds :
        /\ ~IsNone(h[s])
        /\ h[s].val.is_healthy = 0
        /\ h[s].val.consecutive_failures >= threshold
        /\ h[s].val.notified = 0}

InitAlerting ==
    /\ IdleVersion
    /\ IdleChan
    /\ IdleUpdate
    /\ IdleRuns
    /\ backups = EmptyBackups
    /\ health = EmptyHealth
    /\ bot = [pc |-> "alerts", client |-> "none", result |-> NoneV, calls |-> 0,
              phase |-> [s \in ServerIds |-> "unmarked"],
              failures |-> [s \in ServerIds |-> 0]]

\* a handler stores the result of a health check
AlertUpdate ==
    /\ bot.calls < MaxAlertCalls
    /\ \E server_id \in ServerIds, result \in HealthResults, handler \in Handlers :
          LET u == StoreResult(health, handler, server_id, result)
          IN  /\ health' = u.health
              /\ bot' = [bot EXCEPT
                    !.calls = @ + 1,
                    !.result = NoneV,
                    !.phase[server_id] =
                        IF ~u.raised /\ result.is_healthy /\ @ = "marked"
                        THEN "healed" ELSE @,
                    !.failures[server_id] =
                        IF u.raised THEN @
                        ELSE IF result.is_healthy THEN 0 ELSE @ + 1]
    /\ UNCHANGED <<versionVars, chan, updateVars, rb, hc, st, backups>>

\* mark_server_notified for a target of the table
AlertMark ==
    /\ bot.calls < MaxAlertCalls
    /\ \E server_id \in ServerIds :
          /\ ~IsNone(health[server_id])
          /\ health' = mark_server_notified(health, server_id)
          /\ bot' = [bot EXCEPT !.calls = @ + 1, !.result = NoneV,
                                !.phase[server_id] = "marked"]
    /\ UNCHANGED <<versionVars, chan, updateVars, rb, hc, st, backups>>

\* get_unhealthy_servers_for_notification()
AlertQuery ==
    /\ IsNone(bot.result)
    /\ bot' = [bot EXCEPT !.result =
                  Some(get_unhealthy_servers_for_notification(health, min_failures))]
    /\ UNCHANGED <<versionVars, chan, updateVars, rb, hc, st, health, backups>>

NextAlerting == AlertUpdate \/ AlertMark \/ AlertQuery

SpecAlerting == InitAlerting /\ [][NextAlerting]_vars

\* C39: alerting is edge-triggered: whatever the sequence of results stored
\* and targets marked, the query returns a target only while its row is
\* unhealthy with consecutive_failures at or above the threshold and
\* notified = 0; a target that was marked notified is not returned again
\* before a healthy result has been stored for it and the unhealthy results
\* stored since have reached the threshold.
C39_EdgeTriggered ==
    (bot.pc = "alerts" /\ ~IsNone(bot.result)) =>
        \A s \in bot.result.val :
            /\ ~IsNone(health[s])
            /\ health[s].val.is_healthy = 0
            /\ health[s].val.consecutive_failures >= min_failures
            /\ health[s].val.notified = 0
            /\ bot.phase[s] # "marked"
            /\ bot.failures[s] >= min_failures

\* C39 witness: the query returns a target that was marked notified, then
\* found healthy, then unhealthy often enough again
C39_Witness ==
    /\ bot.pc = "alerts"
    /\ ~IsNone(bot.result)
    /\ \E s \in bot.result.val : bot.phase[s] = "healed"

(***************************************************************************)
(* ssh_executor.py: update_n8n run again and again on one server.  bot     *)
(* keeps the clock of the server (`now`, in seconds), the second at which  *)
(* the run under way asked for the time (`at`) and the snapshot paths of   *)
(* the results returned so far.                                            *)
(***************************************************************************)
MaxRuns == 2

MaxSeconds == 1

\* what `date +%Y%m%d_%H%M%S` prints at second `now` of the server's clock
date_output(now) == <<"2", "0", "2", "4", "_">> \o IntToStr(now) \o <<"\n">>

\* what a step of the run may meet at second `now`
SnapshotOutcomes(pc, now) ==
    IF pc = "date" THEN EnvOutcomesWith({date_output(now)}) ELSE StepOutcomes(pc)

InitSnapshots ==
    /\ IdleVersion
    /\ IdleChan
    /\ IdleUpdate
    /\ IdleRuns
    /\ health = <<>>
    /\ backups = EmptyBackups
    /\ bot = [pc |-> "runs", client |-> "none", result |-> NoneV,
              now |-> 0, at |-> 0, snapshots |-> <<>>]

\* one step of the run under way
SnapshotStep ==
    /\ upd.pc # "done"
    /\ Len(bot.snapshots) < MaxRuns
    /\ \E o \in SnapshotOutcomes(upd.pc, bot.now) : upd' = UpdateStep(upd, o, FALSE)
    /\ bot' = IF upd.pc = "date" THEN [bot EXCEPT !.at = bot.now] ELSE bot
    /\ UNCHANGED <<versionVars, chan, ref, rb, hc, st, health, backups>>

\* update_n8n returns to its caller, which goes on to the next update of
\* the server
SnapshotReturn ==
    /\ Finished(upd)
    /\ bot' = [bot EXCEPT !.snapshots =
                  Append(@, [compose_backup_path |-> upd.result.val.compose_backup_path,
                             data_backup_path |-> upd.result.val.data_backup_path,
                             at |-> bot.at])]
    /\ upd' = InitRun("key", FALSE)
    /\ UNCHANGED <<versionVars, chan, ref, rb, hc, st, health, backups>>

\* a second passes on the server
SnapshotTick ==
    /\ bot.now < MaxSeconds
    /\ bot' = [bot EXCEPT !.now = @ + 1]
    /\ UNCHANGED <<versionVars, chan, updateVars, rb, hc, st, health, backups>>

NextSnapshots == SnapshotStep \/ SnapshotReturn \/ SnapshotTick

SpecSnapshots == InitSnapshots /\ [][NextSnapshots]_vars

\* C40 (as claimed): two runs on a server that asked for the time at
\* different seconds never return the same configuration-snapshot path or
\* the same data-archive path, also when the timestamp command failed.
C40_SnapshotPathsDistinct ==
    bot.pc = "runs" =>
        \A i \in 1..Len(bot.snapshots), j \in 1..Len(bot.snapshots) :
            LET a == bot.snapshots[i]
                b == bot.snapshots[j]
            IN  (i < j /\ a.at # b.at) =>
                   /\ (Truthy(a.compose_backup_path) /\ Truthy(b.compose_backup_path)) =>
                         a.compose_backup_path # b.compose_backup_path
                   /\ (Truthy(a.data_backup_path) /\ Truthy(b.data_backup_path)) =>
                         a.data_backup_path # b.data_backup_path

====
